---- MODULE Spec2Model ----
(***************************************************************************)
(* svanity: Solana vanity address search.                                  *)
(*                                                                         *)
(* The model covers the key derivation, the prefix range compiler and the  *)
(* range matcher (solana.c), the CPU and GPU worker loops and the progress *)
(* reporter (vanity.c), the host side of the GPU protocol (gpu.h) and the  *)
(* coordinator (main.c).  Keys, public keys and ranges are sequences of    *)
(* 32 bytes, most significant byte first, as memcmp compares them.         *)
(* Strings are sequences of one-character strings.                         *)
(***************************************************************************)
EXTENDS Integers, Sequences, FiniteSets, TLC

VARIABLES
    prefix,            \* main: prefix_str
    limit,             \* main: limit_val
    num_threads,       \* main: num_threads
    use_gpu,           \* main: use_gpu
    output_progress,   \* main: output_progress
    simple_output,     \* main: simple_output_flag
    gpu_threads,       \* main: gpu_threads->ival[0]
    opt_gws,           \* main: gpu_opts.global_work_size (0 when not given)
    main_pc,           \* position of main
    matcher,           \* main: SolanaMatcher matcher
    exit_code,         \* -1 while the process runs, else its exit status
    found_n,           \* main: atomic_size_t found_n
    attempts,          \* main: atomic_size_t attempts
    gpu_ready,         \* main: gpu_ready
    gpu,               \* main: GpuSolana gpu_ctx and the device result cell
    pc,                \* position of every thread
    key,               \* cpu worker: key; gpu worker: key_base
    found_key,         \* gpu worker: found_key
    result,            \* gpu worker: result, what gpu_solana_compute returned
    address,           \* worker: address
    iter,              \* iterations a worker has started
    stdout,            \* what has been written to stdout
    stderr,            \* what the calls of fprintf have put on stderr
    stdout_buf,        \* stdio buffer of stdout (a file or pipe): not yet written
    derived,           \* number of candidate keys derived so far
    t_pc,              \* harness: position
    t_pub,             \* harness: the 32-byte key put in
    t_hit,             \* matcher harness: result of solana_matcher_matches
    ce,                \* estimate harness: ConfidenceEstimates ce
    cl,                \* init harness: the OpenCL resources of gpu_solana_init
    main_i,            \* main: the loop variable i of the create and join loops
    printed,           \* worker: calls of its current record already made
    cuts,              \* times a thread was overtaken inside a record
    err                \* gpu_solana_compute: cl_int err of its last checked call

vars == <<prefix, limit, num_threads, use_gpu, output_progress, simple_output,
          gpu_threads, opt_gws, main_pc, matcher, exit_code, found_n, attempts,
          gpu_ready, gpu, pc, key, found_key, address, iter, stdout, stderr,
          stdout_buf, derived, t_pc, t_pub, t_hit, result, ce, cl,
          main_i, printed, cuts, err>>

SOLANA_PUBKEY_SIZE == 32
SOLANA_PRIVKEY_SIZE == 32
MinTargetLen == 32
MaxTargetLen == 44

(***************************************************************************)
(* Bytes and strings.                                                      *)
(***************************************************************************)
Fill(n, x) == [i \in 1..n |-> x]

Reverse(s) == [i \in 1..Len(s) |-> s[Len(s) + 1 - i]]

\* Number of leading elements of s equal to x.
LeadingCount(s, x) ==
    IF \A i \in 1..Len(s) : s[i] = x THEN Len(s)
    ELSE (CHOOSE i \in 1..Len(s) : s[i] # x /\ \A j \in 1..(i - 1) : s[j] = x) - 1

\* memcmp(a, b, n): the sign of the first difference among the first n
\* bytes, looked for from byte i on.
RECURSIVE memcmp_from(_, _, _, _)
memcmp_from(a, b, n, i) ==
    IF i > n THEN 0
    ELSE IF a[i] < b[i] THEN -1
    ELSE IF a[i] > b[i] THEN 1
    ELSE memcmp_from(a, b, n, i + 1)

memcmp(a, b, n) == memcmp_from(a, b, n, 1)

\* strncmp(s, p, strlen(p)) == 0: s begins with p.
strncmp_prefix(s, p) ==
    /\ Len(s) >= Len(p)
    /\ \A i \in 1..Len(p) : s[i] = p[i]

(***************************************************************************)
(* Base58 codec (base58.c).                                                *)
(***************************************************************************)
Alphabet ==
    <<"1","2","3","4","5","6","7","8","9",
      "A","B","C","D","E","F","G","H","J","K","L","M","N","P","Q","R","S",
      "T","U","V","W","X","Y","Z",
      "a","b","c","d","e","f","g","h","i","j","k","m","n","o","p","q","r",
      "s","t","u","v","w","x","y","z">>

Radix == Len(Alphabet)

\* Value of a Base58 character, -1 for a character outside the alphabet.
B58Index(c) ==
    IF \E i \in 1..Radix : Alphabet[i] = c
    THEN (CHOOSE i \in 1..Radix : Alphabet[i] = c) - 1
    ELSE -1

\* d is a number in base `base`, least significant digit first, without
\* leading zero digits; the result is d * m + c in the same form.
RECURSIVE MulAddLE(_, _, _, _)
MulAddLE(d, m, c, base) ==
    IF d = <<>>
    THEN IF c = 0 THEN <<>>
         ELSE <<c % base>> \o MulAddLE(<<>>, m, c \div base, base)
    ELSE LET t == Head(d) * m + c
         IN <<t % base>> \o MulAddLE(Tail(d), m, t \div base, base)

\* The first n digits of s (base `from`, most significant first) as a number
\* in base `to`, least significant digit first.
RECURSIVE Convert(_, _, _, _)
Convert(s, n, from, to) ==
    IF n = 0 THEN <<>>
    ELSE MulAddLE(Convert(s, n - 1, from, to), from, s[n], to)

\* The digits of s (base b, most significant first) taken two at a time, as
\* digits of base b * b; a zero digit is put in front of an odd number.
Pairs(s, b) ==
    LET t == IF Len(s) % 2 = 1 THEN <<0>> \o s ELSE s
    IN [i \in 1..(Len(t) \div 2) |-> t[2 * i - 1] * b + t[2 * i]]

\* The digits of d (base b * b, most significant first) as digits of base b,
\* without leading zero digits.
Unpairs(d, b) ==
    LET t == [i \in 1..(2 * Len(d)) |->
                 IF i % 2 = 1 THEN d[(i + 1) \div 2] \div b
                 ELSE d[i \div 2] % b]
    IN IF Len(t) > 0 /\ t[1] = 0 THEN Tail(t) ELSE t

\* The number with digits s in base `from` as digits in base `to`, both most
\* significant first and without leading zeros (s has none); the arithmetic
\* is done on pairs of digits.
Rebase(s, from, to) ==
    LET p == Pairs(s, from)
    IN Unpairs(Reverse(Convert(p, Len(p), from * from, to * to)), to)

\* base58_decode: the decoded bytes and their number; every leading '1' is
\* one leading zero byte; -1 for a character outside the alphabet.
base58_decode(s) ==
    IF \E i \in 1..Len(s) : B58Index(s[i]) = -1
    THEN [len |-> -1, buf |-> <<>>]
    ELSE LET z == LeadingCount(s, "1")
             digits == [i \in 1..(Len(s) - z) |-> B58Index(s[z + i])]
             body == Rebase(digits, Radix, 256)
         IN [len |-> z + Len(body), buf |-> Fill(z, 0) \o body]

\* base58_encode: every leading zero byte is one leading '1'.
base58_encode(in) ==
    LET z == LeadingCount(in, 0)
        d == Rebase(SubSeq(in, z + 1, Len(in)), 256, Radix)
    IN Fill(z, "1") \o [i \in 1..Len(d) |-> Alphabet[d[i] + 1]]

\* pubkey_to_base58
pubkey_to_base58(pubkey) == base58_encode(pubkey)

(***************************************************************************)
(* Prefix range compiler and range matcher (solana.c).                     *)
(***************************************************************************)
\* decode_base58_to_bytes: ret 0 and the 32 bytes, or ret -1.
decode_base58_to_bytes(s) ==
    LET r == base58_decode(s)
    IN IF r.len # SOLANA_PUBKEY_SIZE
       THEN [ret |-> -1, out |-> <<>>]
       ELSE [ret |-> 0, out |-> r.buf]

\* The body of the loop over target_len: the ranges gathered so far, with
\* the range of this length added when both padded strings decode.
TryLength_Swapped(p, target_len, ranges) ==
    IF target_len < Len(p) THEN ranges
    ELSE LET padding_len == target_len - Len(p)
             min_str == p \o Fill(padding_len, "1")
             max_str == p \o Fill(padding_len, "z")
             lo == decode_base58_to_bytes(min_str)
             hi == decode_base58_to_bytes(max_str)
         IN IF lo.ret = 0 /\ hi.ret = 0
            THEN Append(ranges, [min |-> hi.out, max |-> lo.out])
            ELSE ranges

TryLength_EitherDecodes(p, target_len, ranges) ==
    IF target_len < Len(p) THEN ranges
    ELSE LET padding_len == target_len - Len(p)
             min_str == p \o Fill(padding_len, "1")
             max_str == p \o Fill(padding_len, "z")
             lo == decode_base58_to_bytes(min_str)
             hi == decode_base58_to_bytes(max_str)
         IN IF lo.ret = 0 \/ hi.ret = 0
            THEN Append(ranges, [min |-> lo.out, max |-> hi.out])
            ELSE ranges

TryLength(p, target_len, ranges) ==
    IF target_len < Len(p) THEN ranges
    ELSE LET padding_len == target_len - Len(p)
             min_str == p \o Fill(padding_len, "1")
             max_str == p \o Fill(padding_len, "z")
             lo == decode_base58_to_bytes(min_str)
             hi == decode_base58_to_bytes(max_str)
         IN IF lo.ret = 0 /\ hi.ret = 0
            THEN Append(ranges, [min |-> lo.out, max |-> hi.out])
            ELSE ranges

RECURSIVE AllLengths(_, _, _)
AllLengths(p, target_len, ranges) ==
    IF target_len > MaxTargetLen THEN ranges
    ELSE AllLengths(p, target_len + 1, TryLength(p, target_len, ranges))

\* What the matcher is before prefix_to_all_ranges has set it.
UnsetMatcher == [set |-> FALSE, num_ranges |-> 0, ranges |-> <<>>]

\* The end of prefix_to_all_ranges: failure when no length gave a range.
RangesResult_NoCheck(m, ranges) ==
    [ret |-> 0,
     matcher |-> [set |-> TRUE, num_ranges |-> Len(ranges), ranges |-> ranges]]

RangesResult(m, ranges) ==
    IF Len(ranges) = 0
    THEN [ret |-> -1, matcher |-> m]
    ELSE [ret |-> 0,
          matcher |-> [set |-> TRUE, num_ranges |-> Len(ranges),
                       ranges |-> ranges]]

\* prefix_to_all_ranges(prefix, &matcher): the return value and the matcher
\* afterwards (m is the matcher before the call).
prefix_to_all_ranges(p, m) ==
    IF Len(p) = 0
    THEN [ret |-> 0,
          matcher |-> [set |-> TRUE, num_ranges |-> 1,
                       ranges |-> <<[min |-> Fill(SOLANA_PUBKEY_SIZE, 0),
                                     max |-> Fill(SOLANA_PUBKEY_SIZE, 255)]>>]]
    ELSE RangesResult(m, AllLengths(p, MinTargetLen, <<>>))

\* The test of one range in solana_matcher_matches.
InRange_Exclusive(r, pubkey) ==
    /\ memcmp(pubkey, r.min, SOLANA_PUBKEY_SIZE) > 0
    /\ memcmp(pubkey, r.max, SOLANA_PUBKEY_SIZE) < 0

InRange(r, pubkey) ==
    /\ memcmp(pubkey, r.min, SOLANA_PUBKEY_SIZE) >= 0
    /\ memcmp(pubkey, r.max, SOLANA_PUBKEY_SIZE) <= 0

\* solana_matcher_matches(matcher, pubkey)
solana_matcher_matches(m, pubkey) ==
    \E i \in 1..m.num_ranges : InRange(m.ranges[i], pubkey)

(***************************************************************************)
(* Key derivation (solana.c, secret_to_pubkey_solana): the SHA-512 digest  *)
(* of the secret, clamped, times the Ed25519 base point.                   *)
(***************************************************************************)
\* The one element of a set of one: the element is worked out on the spot.
Only(S) == CHOOSE x \in S : TRUE

\* Exclusive or and conjunction of two 4-bit numbers, by table.
XorNibble ==
    <<<<0, 1, 2, 3, 4, 5, 6, 7, 8, 9, 10, 11, 12, 13, 14, 15>>,
     <<1, 0, 3, 2, 5, 4, 7, 6, 9, 8, 11, 10, 13, 12, 15, 14>>,
     <<2, 3, 0, 1, 6, 7, 4, 5, 10, 11, 8, 9, 14, 15, 12, 13>>,
     <<3, 2, 1, 0, 7, 6, 5, 4, 11, 10, 9, 8, 15, 14, 13, 12>>,
     <<4, 5, 6, 7, 0, 1, 2, 3, 12, 13, 14, 15, 8, 9, 10, 11>>,
     <<5, 4, 7, 6, 1, 0, 3, 2, 13, 12, 15, 14, 9, 8, 11, 10>>,
     <<6, 7, 4, 5, 2, 3, 0, 1, 14, 15, 12, 13, 10, 11, 8, 9>>,
     <<7, 6, 5, 4, 3, 2, 1, 0, 15, 14, 13, 12, 11, 10, 9, 8>>,
     <<8, 9, 10, 11, 12, 13, 14, 15, 0, 1, 2, 3, 4, 5, 6, 7>>,
     <<9, 8, 11, 10, 13, 12, 15, 14, 1, 0, 3, 2, 5, 4, 7, 6>>,
     <<10, 11, 8, 9, 14, 15, 12, 13, 2, 3, 0, 1, 6, 7, 4, 5>>,
     <<11, 10, 9, 8, 15, 14, 13, 12, 3, 2, 1, 0, 7, 6, 5, 4>>,
     <<12, 13, 14, 15, 8, 9, 10, 11, 4, 5, 6, 7, 0, 1, 2, 3>>,
     <<13, 12, 15, 14, 9, 8, 11, 10, 5, 4, 7, 6, 1, 0, 3, 2>>,
     <<14, 15, 12, 13, 10, 11, 8, 9, 6, 7, 4, 5, 2, 3, 0, 1>>,
     <<15, 14, 13, 12, 11, 10, 9, 8, 7, 6, 5, 4, 3, 2, 1, 0>>>>

AndNibble ==
    <<<<0, 0, 0, 0, 0, 0, 0, 0, 0, 0, 0, 0, 0, 0, 0, 0>>,
     <<0, 1, 0, 1, 0, 1, 0, 1, 0, 1, 0, 1, 0, 1, 0, 1>>,
     <<0, 0, 2, 2, 0, 0, 2, 2, 0, 0, 2, 2, 0, 0, 2, 2>>,
     <<0, 1, 2, 3, 0, 1, 2, 3, 0, 1, 2, 3, 0, 1, 2, 3>>,
     <<0, 0, 0, 0, 4, 4, 4, 4, 0, 0, 0, 0, 4, 4, 4, 4>>,
     <<0, 1, 0, 1, 4, 5, 4, 5, 0, 1, 0, 1, 4, 5, 4, 5>>,
     <<0, 0, 2, 2, 4, 4, 6, 6, 0, 0, 2, 2, 4, 4, 6, 6>>,
     <<0, 1, 2, 3, 4, 5, 6, 7, 0, 1, 2, 3, 4, 5, 6, 7>>,
     <<0, 0, 0, 0, 0, 0, 0, 0, 8, 8, 8, 8, 8, 8, 8, 8>>,
     <<0, 1, 0, 1, 0, 1, 0, 1, 8, 9, 8, 9, 8, 9, 8, 9>>,
     <<0, 0, 2, 2, 0, 0, 2, 2, 8, 8, 10, 10, 8, 8, 10, 10>>,
     <<0, 1, 2, 3, 0, 1, 2, 3, 8, 9, 10, 11, 8, 9, 10, 11>>,
     <<0, 0, 0, 0, 4, 4, 4, 4, 8, 8, 8, 8, 12, 12, 12, 12>>,
     <<0, 1, 0, 1, 4, 5, 4, 5, 8, 9, 8, 9, 12, 13, 12, 13>>,
     <<0, 0, 2, 2, 4, 4, 6, 6, 8, 8, 10, 10, 12, 12, 14, 14>>,
     <<0, 1, 2, 3, 4, 5, 6, 7, 8, 9, 10, 11, 12, 13, 14, 15>>>>

XorByte(a, b) ==
    16 * XorNibble[(a \div 16) + 1][(b \div 16) + 1]
        + XorNibble[(a % 16) + 1][(b % 16) + 1]

AndByte(a, b) ==
    16 * AndNibble[(a \div 16) + 1][(b \div 16) + 1]
        + AndNibble[(a % 16) + 1][(b % 16) + 1]

\* A 64-bit word is its 8 bytes, the most significant first.
Xor64(a, b) ==
    <<XorByte(a[1], b[1]), XorByte(a[2], b[2]), XorByte(a[3], b[3]),
      XorByte(a[4], b[4]), XorByte(a[5], b[5]), XorByte(a[6], b[6]),
      XorByte(a[7], b[7]), XorByte(a[8], b[8])>>

And64(a, b) ==
    <<AndByte(a[1], b[1]), AndByte(a[2], b[2]), AndByte(a[3], b[3]),
      AndByte(a[4], b[4]), AndByte(a[5], b[5]), AndByte(a[6], b[6]),
      AndByte(a[7], b[7]), AndByte(a[8], b[8])>>

Not64(a) ==
    <<255 - a[1], 255 - a[2], 255 - a[3], 255 - a[4], 255 - a[5],
      255 - a[6], 255 - a[7], 255 - a[8]>>

Pow2 == <<1, 2, 4, 8, 16, 32, 64, 128, 256>>

Pow2Limb(n) == IF n <= 8 THEN Pow2[n + 1] ELSE 256 * Pow2[n - 7]

\* Byte i (0 the most significant) of w moved right by s bits, where B gives
\* the bytes of w moved right by whole bytes.
Rotr64(w, n) ==
    LET q == n \div 8
        lo == Pow2[(n % 8) + 1]
        hi == Pow2[9 - (n % 8)]
        B(i) == w[((i - q + 16) % 8) + 1]
        R(i) == (B(i) \div lo) + (B(i - 1) % lo) * hi
    IN <<R(0), R(1), R(2), R(3), R(4), R(5), R(6), R(7)>>

Shr64(w, n) ==
    LET q == n \div 8
        lo == Pow2[(n % 8) + 1]
        hi == Pow2[9 - (n % 8)]
        B(i) == IF i - q >= 0 THEN w[i - q + 1] ELSE 0
        R(i) == (B(i) \div lo) + (B(i - 1) % lo) * hi
    IN <<R(0), R(1), R(2), R(3), R(4), R(5), R(6), R(7)>>

\* The bytes of a word in the opposite order.
Swap64(w) == <<w[8], w[7], w[6], w[5], w[4], w[3], w[2], w[1]>>

\* Addition modulo 2^64, from the least significant byte up.
Add64(a, b) ==
    LET s8 == a[8] + b[8]
        s7 == a[7] + b[7] + (s8 \div 256)
        s6 == a[6] + b[6] + (s7 \div 256)
        s5 == a[5] + b[5] + (s6 \div 256)
        s4 == a[4] + b[4] + (s5 \div 256)
        s3 == a[3] + b[3] + (s4 \div 256)
        s2 == a[2] + b[2] + (s3 \div 256)
        s1 == a[1] + b[1] + (s2 \div 256)
    IN Swap64(<<s8 % 256, s7 % 256, s6 % 256, s5 % 256, s4 % 256, s3 % 256,
                s2 % 256, s1 % 256>>)

Ch(x, y, z) == Xor64(And64(x, y), And64(Not64(x), z))

Maj(x, y, z) == Xor64(Xor64(And64(x, y), And64(x, z)), And64(y, z))

BigSigma0(x) == Xor64(Xor64(Rotr64(x, 28), Rotr64(x, 34)), Rotr64(x, 39))

BigSigma1(x) == Xor64(Xor64(Rotr64(x, 14), Rotr64(x, 18)), Rotr64(x, 41))

SmallSigma0(x) == Xor64(Xor64(Rotr64(x, 1), Rotr64(x, 8)), Shr64(x, 7))

SmallSigma1(x) == Xor64(Xor64(Rotr64(x, 19), Rotr64(x, 61)), Shr64(x, 6))

\* The round constants and the initial hash value of SHA-512.
Sha512K ==
    <<   <<66, 138, 47, 152, 215, 40, 174, 34>>, <<113, 55, 68, 145, 35, 239, 101, 205>>,
     <<181, 192, 251, 207, 236, 77, 59, 47>>, <<233, 181, 219, 165, 129, 137, 219, 188>>,
     <<57, 86, 194, 91, 243, 72, 181, 56>>, <<89, 241, 17, 241, 182, 5, 208, 25>>,
     <<146, 63, 130, 164, 175, 25, 79, 155>>, <<171, 28, 94, 213, 218, 109, 129, 24>>,
     <<216, 7, 170, 152, 163, 3, 2, 66>>, <<18, 131, 91, 1, 69, 112, 111, 190>>,
     <<36, 49, 133, 190, 78, 228, 178, 140>>, <<85, 12, 125, 195, 213, 255, 180, 226>>,
     <<114, 190, 93, 116, 242, 123, 137, 111>>, <<128, 222, 177, 254, 59, 22, 150, 177>>,
     <<155, 220, 6, 167, 37, 199, 18, 53>>, <<193, 155, 241, 116, 207, 105, 38, 148>>,
     <<228, 155, 105, 193, 158, 241, 74, 210>>, <<239, 190, 71, 134, 56, 79, 37, 227>>,
     <<15, 193, 157, 198, 139, 140, 213, 181>>, <<36, 12, 161, 204, 119, 172, 156, 101>>,
     <<45, 233, 44, 111, 89, 43, 2, 117>>, <<74, 116, 132, 170, 110, 166, 228, 131>>,
     <<92, 176, 169, 220, 189, 65, 251, 212>>, <<118, 249, 136, 218, 131, 17, 83, 181>>,
     <<152, 62, 81, 82, 238, 102, 223, 171>>, <<168, 49, 198, 109, 45, 180, 50, 16>>,
     <<176, 3, 39, 200, 152, 251, 33, 63>>, <<191, 89, 127, 199, 190, 239, 14, 228>>,
     <<198, 224, 11, 243, 61, 168, 143, 194>>, <<213, 167, 145, 71, 147, 10, 167, 37>>,
     <<6, 202, 99, 81, 224, 3, 130, 111>>, <<20, 41, 41, 103, 10, 14, 110, 112>>,
     <<39, 183, 10, 133, 70, 210, 47, 252>>, <<46, 27, 33, 56, 92, 38, 201, 38>>,
     <<77, 44, 109, 252, 90, 196, 42, 237>>, <<83, 56, 13, 19, 157, 149, 179, 223>>,
     <<101, 10, 115, 84, 139, 175, 99, 222>>, <<118, 106, 10, 187, 60, 119, 178, 168>>,
     <<129, 194, 201, 46, 71, 237, 174, 230>>, <<146, 114, 44, 133, 20, 130, 53, 59>>,
     <<162, 191, 232, 161, 76, 241, 3, 100>>, <<168, 26, 102, 75, 188, 66, 48, 1>>,
     <<194, 75, 139, 112, 208, 248, 151, 145>>, <<199, 108, 81, 163, 6, 84, 190, 48>>,
     <<209, 146, 232, 25, 214, 239, 82, 24>>, <<214, 153, 6, 36, 85, 101, 169, 16>>,
     <<244, 14, 53, 133, 87, 113, 32, 42>>, <<16, 106, 160, 112, 50, 187, 209, 184>>,
     <<25, 164, 193, 22, 184, 210, 208, 200>>, <<30, 55, 108, 8, 81, 65, 171, 83>>,
     <<39, 72, 119, 76, 223, 142, 235, 153>>, <<52, 176, 188, 181, 225, 155, 72, 168>>,
     <<57, 28, 12, 179, 197, 201, 90, 99>>, <<78, 216, 170, 74, 227, 65, 138, 203>>,
     <<91, 156, 202, 79, 119, 99, 227, 115>>, <<104, 46, 111, 243, 214, 178, 184, 163>>,
     <<116, 143, 130, 238, 93, 239, 178, 252>>, <<120, 165, 99, 111, 67, 23, 47, 96>>,
     <<132, 200, 120, 20, 161, 240, 171, 114>>, <<140, 199, 2, 8, 26, 100, 57, 236>>,
     <<144, 190, 255, 250, 35, 99, 30, 40>>, <<164, 80, 108, 235, 222, 130, 189, 233>>,
     <<190, 249, 163, 247, 178, 198, 121, 21>>, <<198, 113, 120, 242, 227, 114, 83, 43>>,
     <<202, 39, 62, 206, 234, 38, 97, 156>>, <<209, 134, 184, 199, 33, 192, 194, 7>>,
     <<234, 218, 125, 214, 205, 224, 235, 30>>, <<245, 125, 79, 127, 238, 110, 209, 120>>,
     <<6, 240, 103, 170, 114, 23, 111, 186>>, <<10, 99, 125, 197, 162, 200, 152, 166>>,
     <<17, 63, 152, 4, 190, 249, 13, 174>>, <<27, 113, 11, 53, 19, 28, 71, 27>>,
     <<40, 219, 119, 245, 35, 4, 125, 132>>, <<50, 202, 171, 123, 64, 199, 36, 147>>,
     <<60, 158, 190, 10, 21, 201, 190, 188>>, <<67, 29, 103, 196, 156, 16, 13, 76>>,
     <<76, 197, 212, 190, 203, 62, 66, 182>>, <<89, 127, 41, 156, 252, 101, 126, 42>>,
     <<95, 203, 111, 171, 58, 214, 250, 236>>, <<108, 68, 25, 140, 74, 71, 88, 23>>>>

Sha512H ==
    <<   <<106, 9, 230, 103, 243, 188, 201, 8>>, <<187, 103, 174, 133, 132, 202, 167, 59>>,
     <<60, 110, 243, 114, 254, 148, 248, 43>>, <<165, 79, 245, 58, 95, 29, 54, 241>>,
     <<81, 14, 82, 127, 173, 230, 130, 209>>, <<155, 5, 104, 140, 43, 62, 108, 31>>,
     <<31, 131, 217, 171, 251, 65, 189, 107>>, <<91, 224, 205, 25, 19, 126, 33, 121>>>>

\* The padded block of a 32-byte message: the message, the byte 0x80, zeros
\* and the length in bits (256) in the last 16 bytes.
Sha512Block(m) ==
    [i \in 1..128 |->
        IF i <= 32 THEN m[i]
        ELSE IF i = 33 THEN 128 ELSE IF i = 127 THEN 1 ELSE 0]

Sha512Word(blk, j) ==
    <<blk[8 * j - 7], blk[8 * j - 6], blk[8 * j - 5], blk[8 * j - 4],
      blk[8 * j - 3], blk[8 * j - 2], blk[8 * j - 1], blk[8 * j]>>

\* Word t of the message schedule, appended to the words before it.
Sha512Schedule(W, t) ==
    Append(W, Add64(Add64(SmallSigma1(W[t - 2]), W[t - 7]),
                    Add64(SmallSigma0(W[t - 15]), W[t - 16])))

\* for (t = 16; t < 80; t++): the words lo .. hi of the schedule, the first
\* half of them before the second.
RECURSIVE Sha512ScheduleLoop(_, _, _)
Sha512ScheduleLoop(W, lo, hi) ==
    IF lo = hi THEN Sha512Schedule(W, lo)
    ELSE CHOOSE r \in {Sha512ScheduleLoop(next, ((lo + hi) \div 2) + 1, hi) :
                          next \in {Sha512ScheduleLoop(W, lo, (lo + hi) \div 2)}} :
             TRUE

\* Round t on st = <<W, v>>, the schedule and the working variables a .. h.
Sha512Round(st, t) ==
    LET W == st[1]
        v == st[2]
        T1 == Add64(Add64(Add64(v[8], BigSigma1(v[5])),
                          Add64(Ch(v[5], v[6], v[7]), Sha512K[t])), W[t])
        T2 == Add64(BigSigma0(v[1]), Maj(v[1], v[2], v[3]))
    IN <<W, <<Add64(T1, T2), v[1], v[2], v[3], Add64(v[4], T1), v[5], v[6],
              v[7]>>>>

\* for (t = 0; t < 80; t++): the rounds lo .. hi.
RECURSIVE Sha512RoundLoop(_, _, _)
Sha512RoundLoop(st, lo, hi) ==
    IF lo = hi THEN Sha512Round(st, lo)
    ELSE CHOOSE r \in {Sha512RoundLoop(next, ((lo + hi) \div 2) + 1, hi) :
                          next \in {Sha512RoundLoop(st, lo, (lo + hi) \div 2)}} :
             TRUE

\* The digest: the initial hash value plus the working variables after the
\* last round, word by word.
Sha512Final(v) ==
    Add64(Sha512H[1], v[1]) \o Add64(Sha512H[2], v[2])
        \o Add64(Sha512H[3], v[3]) \o Add64(Sha512H[4], v[4])
        \o Add64(Sha512H[5], v[5]) \o Add64(Sha512H[6], v[6])
        \o Add64(Sha512H[7], v[7]) \o Add64(Sha512H[8], v[8])

(***************************************************************************)
(* Arithmetic modulo p = 2^255 - 19.  A field element is 20 limbs of 13    *)
(* bits, the least significant first, and stands for a number below 2^255. *)
(***************************************************************************)
FeRadix == 8192

FeZero == <<0, 0, 0, 0, 0, 0, 0, 0, 0, 0, 0, 0, 0, 0, 0, 0, 0, 0, 0, 0>>

FeOne == <<1, 0, 0, 0, 0, 0, 0, 0, 0, 0, 0, 0, 0, 0, 0, 0, 0, 0, 0, 0>>

\* 2p, limb by limb twice the limbs of p.
FeTwoP ==
    <<16346, 16382, 16382, 16382, 16382, 16382, 16382, 16382, 16382, 16382, 16382, 16382, 16382, 16382, 16382, 16382, 16382, 16382, 16382, 510>>

FeAt(L, i) == IF i <= Len(L) THEN L[i] ELSE 0

\* Digit i of the carry propagation on st = <<c, carry, limbs>>: the digits,
\* the carry so far and the limbs below digit i.
FeCarryStep(st, i) ==
    <<st[1], (FeAt(st[1], i) + st[2]) \div FeRadix,
      Append(st[3], (FeAt(st[1], i) + st[2]) % FeRadix)>>

\* The digits lo .. hi of the carry propagation, one after the other.
RECURSIVE FeCarryLoop(_, _, _)
FeCarryLoop(st, lo, hi) ==
    IF lo = hi THEN FeCarryStep(st, lo)
    ELSE CHOOSE r \in {FeCarryLoop(next, ((lo + hi) \div 2) + 1, hi) :
                          next \in {FeCarryLoop(st, lo, (lo + hi) \div 2)}} :
             TRUE

\* The limbs of the number whose digits in base 2^13 are c[i] >= 0, two
\* more than there are digits.
FeCarry(c) == FeCarryLoop(<<c, 0, <<>>>>, 1, Len(c) + 2)[3]

\* Limb i of the bits of L below bit 255, and of those from bit 255 on.
FeLow(L, i) ==
    IF i < 20 THEN FeAt(L, i) ELSE IF i = 20 THEN FeAt(L, 20) % 256 ELSE 0

FeHigh(L, i) == (FeAt(L, 19 + i) \div 256) + (FeAt(L, 20 + i) % 256) * 32

\* The number with digits c (20 or more) modulo p, below 2^255: 2^255 is
\* 19 modulo p.
RECURSIVE FeReduce(_)
FeReduce(c) ==
    CHOOSE r \in
        {IF FeAt(L, 20) < 256 /\ \A i \in 21..Len(L) : L[i] = 0
         THEN SubSeq(L, 1, 20)
         ELSE FeReduce([i \in 1..(IF Len(L) > 40 THEN Len(L) - 19 ELSE 21)
                           |-> FeLow(L, i) + 19 * FeHigh(L, i)] \o <<>>)
         : L \in {FeCarry(c)}} : TRUE

\* The operations take their operands by value: x and y are a and b, worked
\* out before the operation starts.
FeAdd(a, b) ==
    CHOOSE r \in {FeReduce([i \in 1..20 |-> x[i] + y[i]] \o <<>>) :
                     x \in {a}, y \in {b}} : TRUE

FeSub(a, b) ==
    CHOOSE r \in {FeReduce([i \in 1..20 |-> x[i] + FeTwoP[i] - y[i]] \o <<>>) :
                     x \in {a}, y \in {b}} : TRUE

\* Limb j of a field element, zero outside its 20 limbs.
FeLimb(y, j) == IF j >= 1 /\ j <= 20 THEN y[j] ELSE 0

\* Digit k of the product: the sum of x[i] * y[k + 1 - i] over the 20 limbs
\* of x.
FeDot(x, y, k) ==
    (((((x[1] * FeLimb(y, k) + x[2] * FeLimb(y, k - 1))
        + x[3] * FeLimb(y, k - 2))
       + (x[4] * FeLimb(y, k - 3) + x[5] * FeLimb(y, k - 4)))
      + (((x[6] * FeLimb(y, k - 5) + x[7] * FeLimb(y, k - 6))
          + x[8] * FeLimb(y, k - 7))
         + (x[9] * FeLimb(y, k - 8) + x[10] * FeLimb(y, k - 9))))
     + ((((x[11] * FeLimb(y, k - 10) + x[12] * FeLimb(y, k - 11))
          + x[13] * FeLimb(y, k - 12))
         + (x[14] * FeLimb(y, k - 13) + x[15] * FeLimb(y, k - 14)))
        + (((x[16] * FeLimb(y, k - 15) + x[17] * FeLimb(y, k - 16))
            + x[18] * FeLimb(y, k - 17))
           + (x[19] * FeLimb(y, k - 18) + x[20] * FeLimb(y, k - 19)))))

FeMul(a, b) ==
    CHOOSE r \in {FeReduce([k \in 1..39 |-> FeDot(x, y, k)] \o <<>>) :
                     x \in {a}, y \in {b}} : TRUE

FeSq(a) == FeMul(a, a)

\* The representative below p: a + 19 reaches 2^255 exactly when a >= p.
FeCanon(a) ==
    CHOOSE r \in
        {IF L[20] >= 256 THEN SubSeq(L, 1, 19) \o <<L[20] % 256>> ELSE a
         : L \in {FeCarry(<<a[1] + 19>> \o SubSeq(a, 2, 20))}} : TRUE

\* The 32 bytes of a canonical field element, the least significant first.
FeBytes(a) ==
    [j \in 1..32 |->
        LET q == (8 * (j - 1)) \div 13
            r == (8 * (j - 1)) % 13
        IN ((a[q + 1] \div Pow2Limb(r)) + FeAt(a, q + 2) * Pow2Limb(13 - r))
               % 256]

(***************************************************************************)
(* The Ed25519 group, in extended coordinates <<X, Y, Z, T>>.              *)
(***************************************************************************)
\* The base point B as y - x, y + x and 2 * d * x * y.
BaseYminusX ==
    <<4414, 6660, 373, 114, 6609, 8025, 1282, 186, 6559, 4073, 642, 4383, 838, 194, 7831, 588, 6392, 7316, 8011, 137>>

BaseYplusX ==
    <<7045, 3169, 4541, 6439, 4859, 1804, 3632, 6367, 4909, 5756, 4272, 2170, 2438, 1444, 5276, 5964, 5076, 2513, 5095, 15>>

BaseT2d ==
    <<2664, 7125, 353, 4644, 2748, 591, 4779, 1145, 6632, 310, 5731, 6790, 7357, 3518, 360, 3253, 7948, 6980, 1118, 222>>

GeZero == <<FeZero, FeOne, FeOne, FeZero>>

\* From the four products E, F, G, H to the point.
GeFromEFGH(E, F, G, H) == <<FeMul(E, F), FeMul(G, H), FeMul(F, G), FeMul(E, H)>>

\* 2 * P, in three rounds: t is <<X^2, Y^2, Z^2, X + Y>>, u is
\* <<H, G, C, (X + Y)^2>> with H = X^2 + Y^2, G = X^2 - Y^2, C = 2 * Z^2,
\* and then E = H - (X + Y)^2 and F = C + G.
GeDouble(P) ==
    CHOOSE R \in
        {GeFromEFGH(FeSub(u[1], u[4]), FeAdd(u[3], u[2]), u[2], u[1]) :
            u \in {<<FeAdd(t[1], t[2]), FeSub(t[1], t[2]), FeAdd(t[3], t[3]),
                     FeSq(t[4])>> :
                      t \in {<<FeSq(P[1]), FeSq(P[2]), FeSq(P[3]),
                               FeAdd(P[1], P[2])>>}}} : TRUE

\* P + B, in three rounds: t is <<Y - X, Y + X, 2 * Z>>, u is <<A, B, C, D>>
\* with A = (Y - X) * (yB - xB), B = (Y + X) * (yB + xB), C = T * 2d * xB * yB
\* and D = 2 * Z, and then E = B - A, F = D - C, G = D + C, H = B + A.
GeAddBase(P) ==
    CHOOSE R \in
        {GeFromEFGH(FeSub(u[2], u[1]), FeSub(u[4], u[3]), FeAdd(u[4], u[3]),
                    FeAdd(u[2], u[1])) :
            u \in {<<FeMul(t[1], BaseYminusX), FeMul(t[2], BaseYplusX),
                     FeMul(P[4], BaseT2d), t[3]>> :
                      t \in {<<FeSub(P[2], P[1]), FeAdd(P[2], P[1]),
                               FeAdd(P[3], P[3])>>}}} : TRUE

\* Bit k (0 the lowest) of a 32-byte number, the least significant byte first.
ScalarBit(s, k) == (s[(k \div 8) + 1] \div Pow2[(k % 8) + 1]) % 2

\* Step i of the multiplication on st = <<s, P>>, the scalar and the point
\* so far, from bit 254 of the scalar down.
GeLadder(st, i) ==
    CHOOSE r \in
        {<<st[1], IF ScalarBit(st[1], 255 - i) = 1 THEN GeAddBase(D) ELSE D>> :
            D \in {GeDouble(st[2])}} : TRUE

\* The steps lo .. hi of the multiplication.
RECURSIVE GeLadderLoop(_, _, _)
GeLadderLoop(st, lo, hi) ==
    IF lo = hi THEN GeLadder(st, lo)
    ELSE CHOOSE r \in {GeLadderLoop(next, ((lo + hi) \div 2) + 1, hi) :
                          next \in {GeLadderLoop(st, lo, (lo + hi) \div 2)}} :
             TRUE

\* Step i of raising z to the power p - 2, whose bits 2 and 4 are zero, on
\* st = <<z, acc>>.
FeInvertStep(st, i) ==
    <<st[1], IF 255 - i \in {2, 4} THEN FeSq(st[2])
             ELSE FeMul(FeSq(st[2]), st[1])>>

\* The steps lo .. hi of the inversion.
RECURSIVE FeInvertLoop(_, _, _)
FeInvertLoop(st, lo, hi) ==
    IF lo = hi THEN FeInvertStep(st, lo)
    ELSE CHOOSE r \in {FeInvertLoop(next, ((lo + hi) \div 2) + 1, hi) :
                          next \in {FeInvertLoop(st, lo, (lo + hi) \div 2)}} :
             TRUE

\* The encoding of the point with the coordinates x and y: y, with the
\* lowest bit of x in the top bit.
GeEncode(x, y) ==
    [i \in 1..32 |-> IF i = 32 THEN y[32] + 128 * (x[1] % 2) ELSE y[i]] \o <<>>

\* The encoding of the point Q: x = X / Z and y = Y / Z.
GeBytes(Q) ==
    CHOOSE r \in
        {GeEncode(FeCanon(FeMul(Q[1], zi)), FeBytes(FeCanon(FeMul(Q[2], zi)))) :
            zi \in {FeInvertLoop(<<Q[3], FeOne>>, 1, 255)[2]}} : TRUE

\* crypto_hash_sha512(hash, secret, 32): the 64 bytes of the digest.
crypto_hash_sha512(secret) ==
    CHOOSE hash \in
        {Sha512Final(st[2]) :
            st \in {Sha512RoundLoop(<<W, Sha512H>>, 1, 80) :
                       W \in {Sha512ScheduleLoop(
                                 [j \in 1..16 |->
                                     Sha512Word(Sha512Block(secret), j)]
                                     \o <<>>, 17, 80)}}} : TRUE

\* clamped[0] &= 248; clamped[31] &= 127; clamped[31] |= 64
Clamp(hash) ==
    [i \in 1..32 |->
        IF i = 1 THEN hash[1] - (hash[1] % 8)
        ELSE IF i = 32 THEN (hash[32] % 64) + 64
        ELSE hash[i]]

\* crypto_scalarmult_ed25519_base_noclamp(pubkey, clamped): the encoding of
\* the scalar (its bits 0 .. 254) times the base point.
crypto_scalarmult_ed25519_base_noclamp(clamped) ==
    CHOOSE pubkey \in
        {GeBytes(Q) : Q \in {GeLadderLoop(<<clamped, GeZero>>, 1, 255)[2]}} :
        TRUE

\* A 32-byte value that is zero except for bytes 0, 1 and 31.
Key3(a, b, c) ==
    [i \in 1..32 |-> IF i = 1 THEN a ELSE IF i = 2 THEN b
                     ELSE IF i = 32 THEN c ELSE 0]

\* The public keys of the secrets the runs below draw, and of three more,
\* worked out beforehand by the definitions above.
DerivedBefore ==
    {
      <<Key3(0, 7, 0),
        <<145, 91, 77, 148, 9, 143, 182, 207, 174, 244, 111, 108, 206, 201, 104, 120,
          119, 177, 137, 139, 53, 117, 134, 16, 169, 207, 75, 166, 81, 140, 126, 62>>>>,
      <<Key3(0, 7, 1),
        <<162, 61, 233, 94, 169, 250, 219, 99, 198, 155, 35, 240, 31, 93, 26, 34,
          43, 239, 5, 170, 117, 207, 155, 150, 0, 123, 30, 231, 114, 44, 165, 162>>>>,
      <<Key3(0, 7, 2),
        <<255, 29, 100, 248, 112, 163, 34, 117, 245, 232, 136, 42, 2, 59, 73, 249,
          210, 139, 74, 197, 6, 141, 163, 227, 170, 153, 9, 73, 35, 220, 93, 131>>>>,
      <<Key3(0, 7, 3),
        <<79, 6, 180, 194, 129, 118, 233, 122, 226, 64, 141, 118, 75, 110, 150, 193,
          208, 29, 90, 155, 197, 171, 2, 25, 176, 148, 109, 48, 4, 96, 148, 36>>>>,
      <<Key3(0, 7, 4),
        <<180, 66, 222, 160, 69, 30, 123, 58, 35, 152, 45, 84, 217, 140, 158, 91,
          73, 18, 95, 180, 153, 144, 167, 254, 129, 110, 255, 193, 62, 196, 164, 66>>>>,
      <<Key3(0, 20, 0),
        <<226, 56, 143, 81, 146, 30, 238, 104, 199, 16, 155, 135, 170, 99, 40, 201,
          110, 2, 150, 89, 226, 100, 119, 230, 154, 232, 8, 93, 225, 255, 145, 189>>>>,
      <<Key3(0, 20, 1),
        <<143, 120, 185, 0, 100, 102, 53, 186, 161, 121, 116, 182, 174, 60, 139, 70,
          207, 246, 225, 202, 221, 110, 142, 231, 22, 177, 179, 78, 60, 56, 67, 95>>>>,
      <<Key3(0, 20, 2),
        <<94, 207, 31, 61, 82, 60, 208, 148, 149, 156, 73, 216, 131, 209, 185, 217,
          220, 225, 7, 247, 164, 48, 144, 72, 26, 95, 180, 207, 214, 62, 1, 110>>>>,
      <<Key3(0, 20, 3),
        <<179, 185, 245, 49, 99, 201, 100, 26, 42, 238, 160, 127, 199, 15, 142, 57,
          40, 118, 115, 32, 40, 171, 231, 51, 176, 177, 212, 121, 11, 55, 23, 227>>>>,
      <<Key3(0, 20, 4),
        <<11, 226, 147, 159, 112, 1, 42, 147, 78, 229, 119, 60, 253, 191, 31, 39,
          231, 145, 98, 189, 199, 199, 68, 243, 42, 10, 197, 61, 7, 71, 108, 23>>>>,
      <<Key3(0, 2, 0),
        <<26, 156, 70, 136, 241, 9, 250, 192, 28, 8, 210, 125, 98, 201, 252, 19,
          22, 250, 128, 232, 167, 237, 146, 14, 219, 43, 169, 80, 225, 186, 63, 200>>>>,
      <<Key3(0, 2, 1),
        <<51, 78, 140, 146, 242, 14, 190, 198, 28, 25, 3, 60, 229, 234, 69, 134,
          121, 126, 177, 230, 242, 123, 127, 99, 199, 16, 243, 210, 209, 68, 204, 142>>>>,
      <<Key3(0, 2, 2),
        <<229, 25, 136, 110, 133, 147, 143, 89, 208, 89, 236, 106, 88, 179, 78, 64,
          192, 250, 167, 121, 96, 103, 100, 128, 37, 70, 232, 24, 38, 140, 188, 127>>>>,
      <<Key3(0, 2, 3),
        <<225, 67, 219, 200, 173, 194, 65, 69, 55, 147, 85, 220, 90, 229, 23, 136,
          198, 221, 174, 64, 187, 212, 73, 105, 143, 184, 190, 147, 53, 79, 210, 199>>>>,
      <<Key3(0, 2, 4),
        <<131, 114, 75, 244, 1, 36, 9, 239, 69, 28, 147, 238, 172, 113, 147, 211,
          219, 73, 101, 157, 197, 230, 36, 171, 179, 207, 112, 218, 220, 136, 80, 137>>>>,
      <<Key3(0, 15, 0),
        <<5, 112, 215, 73, 207, 38, 132, 26, 184, 191, 142, 180, 47, 192, 40, 119,
          50, 58, 200, 124, 67, 231, 47, 127, 155, 170, 88, 215, 180, 154, 40, 163>>>>,
      <<Key3(0, 18, 0),
        <<54, 62, 56, 22, 250, 94, 78, 44, 233, 249, 143, 147, 24, 193, 135, 19,
          212, 196, 129, 249, 168, 151, 218, 205, 152, 72, 105, 147, 196, 57, 30, 183>>>>,
      <<Key3(0, 0, 0),
        <<59, 106, 39, 188, 206, 182, 164, 45, 98, 163, 168, 208, 42, 111, 13, 115,
          101, 50, 21, 119, 29, 226, 67, 166, 58, 192, 72, 161, 139, 89, 218, 41>>>>
    }

\* secret_to_pubkey_solana(secret, pubkey)
secret_to_pubkey_solana(secret) ==
    IF \E e \in DerivedBefore : e[1] = secret
    THEN (CHOOSE e \in DerivedBefore : e[1] = secret)[2]
    ELSE Only({crypto_scalarmult_ed25519_base_noclamp(clamped) :
                  clamped \in {Clamp(crypto_hash_sha512(secret))}})

\* secret_to_pubkey_solana(key, pubkey); pubkey_to_base58(pubkey, address)
KeyAddress(k) ==
    Only({pubkey_to_base58(pubkey) : pubkey \in {secret_to_pubkey_solana(k)}})

(***************************************************************************)
(* Bounds of the model and the inputs it draws.                            *)
(***************************************************************************)
MaxThreads == 2      \* largest --threads tried
MaxWorkers == 2      \* worker threads of one run, CPU and GPU together
MaxLimit == 2        \* largest --limit tried
MaxGpuLimit == 1     \* largest --limit tried together with --gpu
MaxIter == 2         \* iterations the workers may start, all together
MaxIterLong == 3     \* the same where over-emission is followed
MaxCuts == 1         \* times a thread may be overtaken inside a record
MaxTicks == 1        \* progress texts the reporter may write

\* What randombytes_buf may give a CPU worker.
StartKeys == {Key3(0, 7, 0), Key3(0, 20, 0)}

\* What randombytes_buf may give the GPU worker.
GpuRoots == {Key3(0, 20, 0), Key3(0, 2, 0)}

\* Prefixes given on the command line.
RunPrefixes == {<<"A">>, <<"1", "1">>, <<"I", "l", "l", "0", "O">>}

GpuThreadsChoices == {2}
GwsChoices == {0, 1}

CpuIds == 1..MaxThreads
GpuId == MaxThreads + 1
ProgressId == MaxThreads + 2
Threads == CpuIds \cup {GpuId, ProgressId}

\* The 64-bit result cell holding (uint64_t)-1.
Sentinel == -1

Running == exit_code = -1

\* Iterations started so far by all workers.
Started == iter[GpuId] + (LET S[n \in 0..MaxThreads] ==
                              IF n = 0 THEN 0 ELSE S[n - 1] + iter[n]
                          IN S[MaxThreads])

\* How far a run is followed.
IterBound == IF t_pc = "off" THEN MaxIter ELSE MaxIterLong

(***************************************************************************)
(* Output lines.                                                           *)
(***************************************************************************)
\* What one or more consecutive calls of fprintf/printf put on a stream:
\* a whole line, or the calls `from` to `to` of a record.  The calls of a
\* record are numbered 0 for its heading, 1 to 32 for the bytes of the key
\* and 33 for the call that ends it.
Line(kind) ==
    [kind |-> kind, key |-> <<>>, addr |-> <<>>, by |-> 0, from |-> 0,
     to |-> 0]

LastCall == SOLANA_PRIVKEY_SIZE + 1

\* The first call of a match record: simple output has no heading.
FirstCall == IF simple_output THEN 1 ELSE 0

\* The newline written first when progress is reported.
LeadCalls == IF output_progress THEN 1 ELSE 0

\* The number of calls that write a match record.
MatchCalls == LeadCalls + (LastCall - FirstCall) + 1

\* The match record a worker prints: the key as hex and the address.
MatchLine_NextKey(k, a, w) ==
    [kind |-> "match",
     key |-> [i \in 1..32 |-> IF i = 32 THEN (k[32] + 1) % 256 ELSE k[i]],
     addr |-> a, by |-> w, from |-> FirstCall, to |-> LastCall]

MatchLine(k, a, w) ==
    [kind |-> "match", key |-> k, addr |-> a, by |-> w, from |-> FirstCall,
     to |-> LastCall]

\* The line the GPU worker prints for a solution that fails the check.
DiagLine(k, w) ==
    [kind |-> "non_matching", key |-> k, addr |-> <<>>, by |-> w,
     from |-> 0, to |-> LastCall]

\* The call that ends a match record: the record has been emitted.
IsMatchLine(l) == l.kind = "match" /\ l.to = LastCall

\* Every match record emitted so far, on either stream.
Records == SelectSeq(stdout, IsMatchLine) \o SelectSeq(stderr, IsMatchLine)

Emitted == Len(Records)

\* Whether the calls l continue what the stream ends with.
Continues(last, l) ==
    /\ l.kind = last.kind /\ l.by = last.by /\ l.by # 0
    /\ l.key = last.key /\ l.addr = last.addr
    /\ l.from = last.to + 1

\* fprintf/printf of l.  What a thread writes right behind its own earlier
\* calls reads as one piece.
Emit_Dropped(stream, l) == stream

Emit(stream, l) ==
    IF stream # <<>> /\ Continues(stream[Len(stream)], l)
    THEN [stream EXCEPT ![Len(stream)].to = l.to]
    ELSE Append(stream, l)

\* The numbers of calls after which a thread that writes a record of N
\* calls may be overtaken by another thread: every call is a step of its
\* own, and the stream is locked for the length of one call only.
CutPoints(N) == IF cuts < MaxCuts THEN 1..(N - 1) ELSE {}

\* Where a thread that has made n of N calls may stand after its next step.
Stops(n, N) == {c \in CutPoints(N) \cup {N} : n < c /\ c <= N}

\* The count of the times a thread was overtaken, after a step to call n.
CutsAfter(n, N) == IF n < N THEN cuts + 1 ELSE cuts

\* fflush(stdout), and the flush of exit and of the return from main: what
\* is in the buffer is written behind what stdout holds.
Flush(stream, buf) ==
    IF buf = <<>> THEN stream ELSE Emit(stream, Head(buf)) \o Tail(buf)

\* The text of the progress reporter; the numbers in it are not modelled.
IsProgressText(l) == l.kind = "progress"

\* The progress texts written so far.
ProgressTexts == Len(SelectSeq(stderr, IsProgressText))

\* The stream after the calls n1+1 .. n2 of the record l, whose first `lead`
\* calls go elsewhere.
PrintCalls(stream, l, lead, n1, n2) ==
    LET lo == l.from + (IF n1 > lead THEN n1 - lead ELSE 0)
        hi == l.from + (n2 - lead - 1)
    IN IF hi < lo THEN stream
       ELSE Emit(stream, [l EXCEPT !.from = lo, !.to = hi])

\* limit != 0 && found >= limit
LimitReached_OffByOne(lim, found) == lim # 0 /\ found > lim

LimitReached_NoZeroTest(lim, found) == found >= lim

LimitReached(lim, found) == lim # 0 /\ found >= lim

\* The key increment: add one, carrying from byte 31 toward byte 0.
RECURSIVE IncAt(_, _)
IncAt(k, i) ==
    IF i = 0 THEN k
    ELSE LET k2 == [k EXCEPT ![i] = (k[i] + 1) % 256]
         IN IF k2[i] # 0 THEN k2 ELSE IncAt(k2, i - 1)

IncrementKey_NoCarry(k) == [k EXCEPT ![32] = (k[32] + 1) % 256]

IncrementKey(k) == IncAt(k, SOLANA_PRIVKEY_SIZE)

\* atomic_fetch_add(attempts, n) when progress reporting is on.
CountAttempts_Always(n) == attempts + n

CountAttempts(n) == IF output_progress THEN attempts + n ELSE attempts

(***************************************************************************)
(* The difficulty estimator of solana.c.  A GMP integer is a sequence of   *)
(* BigW bytes, least significant first.                                    *)
(***************************************************************************)
BigW == SOLANA_PUBKEY_SIZE + 10

BigZero == [i \in 1..BigW |-> 0]

\* mpz_import(z, n, 1, 1, 0, 0, bytes): bytes holds the most significant
\* byte first.
mpz_import(bytes) ==
    [i \in 1..BigW |-> IF i <= Len(bytes) THEN bytes[Len(bytes) + 1 - i] ELSE 0]

\* mpz_mul_2exp(r, a, 8 * n)
mpz_mul_2exp(a, n) == [i \in 1..BigW |-> IF i <= n THEN 0 ELSE a[i - n]]

\* The loops over the bytes of a number: BigStep(op, x, y, st, i) is pass i
\* of the loop `op` on the state st, and Loop runs the passes lo..hi in
\* order, halved so that the nesting stays shallow.
RECURSIVE BigStep(_, _, _, _, _)
RECURSIVE Loop(_, _, _, _, _, _)
Loop(op, x, y, st, lo, hi) ==
    IF lo > hi THEN st
    ELSE IF lo = hi THEN BigStep(op, x, y, st, lo)
    ELSE Only({Loop(op, x, y, st2, (lo + hi) \div 2 + 1, hi) :
                  st2 \in {Loop(op, x, y, st, lo, (lo + hi) \div 2)}})

\* One byte of a sum: st is <<bytes so far, carry>>.
BigAddStep(a, b, st, i) ==
    <<[st[1] EXCEPT ![i] = (a[i] + b[i] + st[2]) % 256],
      (a[i] + b[i] + st[2]) \div 256>>

\* mpz_add
mpz_add(a, b) == Loop("add", a, b, <<BigZero, 0>>, 1, BigW)[1]

\* mpz_add_ui, for n below 256
mpz_add_ui(a, n) == Loop("add", a, BigZero, <<BigZero, n>>, 1, BigW)[1]

\* One byte of a difference: st is <<bytes so far, borrow>>.
BigSubStep(a, b, st, i) ==
    <<[st[1] EXCEPT ![i] = (a[i] - b[i] - st[2] + 256) % 256],
      IF a[i] - b[i] - st[2] < 0 THEN 1 ELSE 0>>

\* mpz_sub, for a >= b
mpz_sub(a, b) == Loop("sub", a, b, <<BigZero, 0>>, 1, BigW)[1]

\* One byte of a comparison from the most significant byte down: st is
\* -1, 0 or 1 as the bytes seen so far make a smaller, equal or larger.
BigCmpStep(a, b, st, k) ==
    IF st # 0 THEN st
    ELSE IF a[BigW + 1 - k] < b[BigW + 1 - k] THEN -1
    ELSE IF a[BigW + 1 - k] > b[BigW + 1 - k] THEN 1
    ELSE 0

\* mpz_cmp(a, b)
mpz_cmp(a, b) == Loop("cmp", a, b, 0, 1, BigW)

BigLeq(a, b) == mpz_cmp(a, b) <= 0

\* One byte of a product with a number below 256: st is <<bytes, carry>>.
BigMulStep(a, m, st, i) ==
    <<[st[1] EXCEPT ![i] = (a[i] * m + st[2]) % 256],
      (a[i] * m + st[2]) \div 256>>

BigMulSmall(a, m) == Loop("mul", a, m, <<BigZero, 0>>, 1, BigW)[1]

\* The largest d in lo..hi with d * s <= r, by bisection.
RECURSIVE BigDigit(_, _, _, _)
BigDigit(r, s, lo, hi) ==
    IF lo = hi THEN lo
    ELSE IF BigLeq(BigMulSmall(s, (lo + hi + 1) \div 2), r)
         THEN BigDigit(r, s, (lo + hi + 1) \div 2, hi)
         ELSE BigDigit(r, s, lo, (lo + hi + 1) \div 2 - 1)

\* One byte of the long division, from the most significant byte down:
\* st is <<remainder so far, quotient bytes found>>.
BigDivStep(n, s, st, k) ==
    Only({Only({<<mpz_sub(r, BigMulSmall(s, d)),
                  [st[2] EXCEPT ![BigW + 1 - k] = d]>> :
                   d \in {BigDigit(r, s, 0, 255)}}) :
             r \in {mpz_add_ui(mpz_mul_2exp(st[1], 1), n[BigW + 1 - k])}})

BigStep(op, x, y, st, i) ==
    CASE op = "add" -> BigAddStep(x, y, st, i)
      [] op = "sub" -> BigSubStep(x, y, st, i)
      [] op = "cmp" -> BigCmpStep(x, y, st, i)
      [] op = "mul" -> BigMulStep(x, y, st, i)
      [] op = "div" -> BigDivStep(x, y, st, i)

\* mpz_tdiv_q(q, n, s), for s > 0
mpz_tdiv_q(n, s) ==
    Only({Loop("div", n1, s1, <<BigZero, BigZero>>, 1, BigW)[2] :
             n1 \in {n}, s1 \in {s}})

\* (uint64_t)mpz_get_ui(z): the low 64 bits, most significant byte first
mpz_get_ui(z) == [i \in 1..8 |-> z[9 - i]]

P50 == <<128, 0, 0, 0, 0, 0, 0, 0>>

P90 == <<230, 102, 102, 102, 102, 102, 102, 102>>

P99 == <<253, 112, 163, 215, 10, 61, 112, 163>>

\* calculate_n_gmp_internal(S, P_fixed)
calculate_n_gmp_internal(S, P_fixed) ==
    IF S = BigZero THEN mpz_get_ui(BigZero)
    ELSE mpz_get_ui(mpz_tdiv_q(mpz_mul_2exp(mpz_import(P_fixed), 24), S))

\* The sum so far and max - min + 1 of range i.
SumStep(m, S, i) ==
    mpz_add(S, mpz_add_ui(mpz_sub(mpz_import(m.ranges[i].max),
                                  mpz_import(m.ranges[i].min)), 1))

\* The sum over the ranges i..num_ranges of max - min + 1, added to S.
RECURSIVE SumFrom(_, _, _)
SumFrom(m, i, S) ==
    IF i > m.num_ranges THEN S
    ELSE Only({SumFrom(m, i + 1, S2) : S2 \in {SumStep(m, S, i)}})

SumRanges(m) == SumFrom(m, 1, BigZero)

\* get_estimates_gmp(matcher, ce)
get_estimates_gmp(m) ==
    Only({[p50 |-> calculate_n_gmp_internal(S, P50),
           p90 |-> calculate_n_gmp_internal(S, P90),
           p99 |-> calculate_n_gmp_internal(S, P99)] :
             S \in {SumRanges(m)}})

UnsetEstimates ==
    [p50 |-> mpz_get_ui(BigZero), p90 |-> mpz_get_ui(BigZero),
     p99 |-> mpz_get_ui(BigZero)]

(***************************************************************************)
(* The OpenCL resources of gpu_solana_init (gpu.h).  A call is described   *)
(* by the step at which OpenCL reports a failure ("none" when every step   *)
(* succeeds) and by the buffer fields of the caller's GpuSolana that hold  *)
(* something other than NULL before the call: main passes an automatic     *)
(* variable it has not initialised.                                        *)
(***************************************************************************)
Buffers == {"result_buf", "key_root_buf", "min_ranges_buf", "max_ranges_buf"}

Resources == {"context", "program", "queue", "kernel"} \cup Buffers

\* The steps of gpu_solana_init that can fail, in the order of the code;
\* build_program is the two steps program_source and program_build.
InitSteps ==
    <<"device", "context", "program_source", "program_build", "queue",
      "kernel", "result_buf", "key_root_buf", "min_ranges_buf",
      "max_ranges_buf", "kernel_args">>

FailPoints == {InitSteps[i] : i \in 1..Len(InitSteps)} \cup {"none"}

\* The position of step s in the code; "none" lies behind the last step.
StepIndex(s) ==
    IF s = "none" THEN Len(InitSteps) + 1
    ELSE CHOOSE i \in 1..Len(InitSteps) : InitSteps[i] = s

\* The resource a step creates when it succeeds.
Creates(step) ==
    IF step = "program_source" THEN {"program"}
    ELSE IF step \in Resources THEN {step}
    ELSE {}

\* The resources created before the step `fail`.
AcquiredBefore(fail) ==
    UNION {Creates(InitSteps[i]) : i \in 1..(StepIndex(fail) - 1)}

\* What a buffer field of *gpu holds at the cleanup label: the handle when
\* the buffer was created, NULL when its clCreateBuffer failed, and what
\* the caller's memory held when the code did not get that far.
FieldAtCleanup(b, fail, garbage) ==
    IF b \in AcquiredBefore(fail) THEN "handle"
    ELSE IF b = fail THEN "null"
    ELSE IF b \in garbage THEN "garbage"
    ELSE "null"

\* The releases of the cleanup label: every buffer field that is not NULL,
\* then kernel, queue, program and context.
CleanupLabel(fail, garbage) ==
    {b \in Buffers : FieldAtCleanup(b, fail, garbage) # "null"}
       \cup {"kernel", "queue", "program", "context"}

\* The releases gpu_solana_init makes when the step `fail` fails.
ReleasedOn(fail, garbage) ==
    IF fail \in {"none", "device", "context"} THEN {}
    ELSE IF fail \in {"program_source", "program_build"} THEN {"context"}
    ELSE IF fail = "queue" THEN {"program", "context"}
    ELSE IF fail = "kernel" THEN {"queue", "program", "context"}
    ELSE CleanupLabel(fail, garbage)

\* gpu_solana_init(gpu, opts): what it returns, the resources it created
\* and the handles it passed to a clRelease call.
gpu_solana_init(fail, garbage) ==
    [ret |-> IF fail = "none" THEN 0 ELSE -1,
     acquired |-> AcquiredBefore(fail),
     released |-> ReleasedOn(fail, garbage)]

\* Before the call.
NoResources ==
    [fail |-> "none", garbage |-> {}, ret |-> 1, acquired |-> {},
     released |-> {}]

(***************************************************************************)
(* Initial state: the command line has been parsed (main.c, step 6).       *)
(***************************************************************************)
NoKey == <<>>

InitShared ==
    /\ main_pc = "compile"
    /\ matcher = UnsetMatcher
    /\ exit_code = -1
    /\ found_n = 0
    /\ attempts = 0
    /\ gpu_ready = FALSE
    /\ gpu = [ctx |-> "none", result_buf |-> Sentinel, ranges |-> "none",
              global_work_size |-> 0]
    /\ pc = [w \in Threads |-> "unborn"]
    /\ key = [w \in Threads |-> NoKey]
    /\ found_key = NoKey
    /\ result = 0
    /\ ce = UnsetEstimates
    /\ main_i = 0
    /\ printed = [w \in Threads |-> 0]
    /\ cuts = 0
    /\ err = 0
    /\ cl = NoResources
    /\ address = [w \in Threads |-> <<>>]
    /\ iter = [w \in Threads |-> 0]
    /\ stdout = <<>>
    /\ stderr = <<>>
    /\ stdout_buf = <<>>
    /\ derived = 0

\* The runs followed: every --limit up to MaxLimit without the GPU and up
\* to MaxGpuLimit with it, the work size override in the runs of the GPU
\* without a limit.
Init ==
    /\ prefix \in RunPrefixes
    /\ use_gpu \in BOOLEAN
    /\ limit \in 0..(IF use_gpu THEN MaxGpuLimit ELSE MaxLimit)
    /\ num_threads \in 1..MaxThreads
    /\ output_progress \in BOOLEAN
    /\ simple_output \in BOOLEAN
    /\ gpu_threads \in GpuThreadsChoices
    /\ opt_gws \in (IF use_gpu /\ limit = 0 THEN GwsChoices ELSE {0})
    /\ num_threads + (IF use_gpu THEN 1 ELSE 0) <= MaxWorkers
    /\ InitShared
    /\ t_pc = "off"
    /\ t_pub = NoKey
    /\ t_hit = FALSE

(***************************************************************************)
(* The coordinator (main.c).                                               *)
(***************************************************************************)
\* Create matcher from prefix; on failure the error line and return 1.
MainCompile ==
    /\ Running /\ main_pc = "compile"
    /\ \E p \in {prefix}, m \in {matcher} :
       LET r == prefix_to_all_ranges(p, m)
       IN IF r.ret # 0
          THEN /\ stderr' = Emit(stderr, Line("error"))
               /\ exit_code' = 1
               /\ main_pc' = "returned"
               /\ UNCHANGED matcher
          ELSE /\ matcher' = r.matcher
               /\ main_pc' = "plan"
               /\ UNCHANGED <<stderr, exit_code>>
    /\ UNCHANGED <<prefix, limit, num_threads, use_gpu, output_progress,
                   simple_output, gpu_threads, opt_gws, found_n, attempts,
                   gpu_ready, gpu, pc, key, found_key, address, iter, stdout,
                   stdout_buf, derived, t_pc, t_pub, t_hit, result, ce,
                   cl, main_i, printed, cuts, err>>

\* Print search info BEFORE starting threads, and flush.
MainPlan_NotPrinted ==
    /\ Running /\ main_pc = "plan"
    /\ stderr' = stderr
    /\ main_pc' = "gpu_init"
    /\ UNCHANGED <<prefix, limit, num_threads, use_gpu, output_progress,
                   simple_output, gpu_threads, opt_gws, matcher, exit_code,
                   found_n, attempts, gpu_ready, gpu, pc, key, found_key,
                   address, iter, stdout, stdout_buf, derived, t_pc, t_pub,
                   t_hit, result, ce, cl, main_i, printed, cuts, err>>

MainPlan ==
    /\ Running /\ main_pc = "plan"
    /\ stderr' = IF simple_output THEN stderr ELSE Emit(stderr, Line("plan"))
    /\ main_pc' = "gpu_init"
    /\ UNCHANGED <<prefix, limit, num_threads, use_gpu, output_progress,
                   simple_output, gpu_threads, opt_gws, matcher, exit_code,
                   found_n, attempts, gpu_ready, gpu, pc, key, found_key,
                   address, iter, stdout, stdout_buf, derived, t_pc, t_pub,
                   t_hit, result, ce, cl, main_i, printed, cuts, err>>

\* gpu_solana_init, work sizes: the override when given, else the threads.
GlobalWorkSize(gws, threads) == IF gws > 0 THEN gws ELSE threads

\* What gpu_solana_init writes to stderr: the device line once create_device
\* has returned a device, then the diagnostic of the step that failed.
InitLines(fail) ==
    (IF fail = "device" THEN <<>> ELSE <<Line("gpu_info")>>)
        \o (IF fail = "none" THEN <<>> ELSE <<Line("gpu_init_error")>>)

\* Whether the cleanup label hands clReleaseMemObject a field that still
\* holds what the caller's memory held.
ReleasesGarbage(fail, garbage) ==
    \E b \in Buffers \cap ReleasedOn(fail, garbage) :
        FieldAtCleanup(b, fail, garbage) = "garbage"

\* The clReleaseMemObject call of the cleanup label in which the process
\* may be killed: one on a field that holds what the caller's memory held,
\* or "none" when every such call returns.
CrashPoints(fail, garbage) ==
    {b \in Buffers \cap ReleasedOn(fail, garbage) :
        FieldAtCleanup(b, fail, garbage) = "garbage"} \cup {"none"}

\* The release calls made when the process is killed in the release of the
\* buffer `crash`: the cleanup label releases the buffers in the order
\* result_buf, key_root_buf, min_ranges_buf, max_ranges_buf, before the
\* kernel, the queue, the program and the context, which are not reached.
ReleasedUntil(fail, garbage, crash) ==
    {b \in Buffers \cap ReleasedOn(fail, garbage) :
        StepIndex(b) <= StepIndex(crash)}

\* How a call whose behaviour is undefined may end: it returns, or the
\* process is killed by a signal.
UBOutcomes == {"returns", "killed"}

\* The signal of an invalid memory reference, and the status of a process
\* killed by it.
SIGSEGV == 11

Killed == 128 + SIGSEGV

\* The clEnqueueWriteBuffer calls of gpu_solana_init: the two range tables
\* and the sentinel.  Their return values are not looked at, so a call
\* that fails leaves its buffer as clCreateBuffer made it and the
\* initialisation goes on.
InitWrites == {"min_ranges", "max_ranges", "sentinel"}

\* What the result cell may hold when it was created and never written:
\* any 64-bit value; zero (the id of a work item), an id of 2^24 and more
\* and the value the write would have stored stand for them.
FreshCells == {0, 16777216 + 1, Sentinel}

\* The result cell and the range tables after an initialisation of whose
\* writes `failed` failed.
CellAfterInit(failed, fresh) ==
    IF "sentinel" \in failed THEN fresh ELSE Sentinel

RangesAfterInit(failed) ==
    IF failed \cap {"min_ranges", "max_ranges"} = {} THEN "written"
    ELSE "fresh"

\* Prepare GPU thread if requested: gpu_solana_init succeeds, or fails at
\* one of its steps; gpu_ctx is an automatic variable main never wrote.
MainGpuInit ==
    /\ Running /\ main_pc = "gpu_init"
    /\ IF use_gpu
       THEN \E fail \in FailPoints, garbage \in SUBSET Buffers,
               ub \in UBOutcomes, failed \in SUBSET InitWrites,
               fresh \in FreshCells :
               \E r \in {gpu_solana_init(fail, garbage)} :
               IF ReleasesGarbage(fail, garbage) /\ ub = "killed"
               THEN /\ stderr' = stderr \o InitLines(fail)
                    /\ exit_code' = Killed
                    /\ UNCHANGED <<gpu, gpu_ready, use_gpu, main_pc>>
               ELSE IF r.ret = 0
               THEN /\ gpu' = [ctx |-> "held",
                               result_buf |-> CellAfterInit(failed, fresh),
                               ranges |-> RangesAfterInit(failed),
                               global_work_size |->
                                   GlobalWorkSize(opt_gws, gpu_threads)]
                    /\ gpu_ready' = TRUE
                    /\ stderr' = stderr \o InitLines(fail)
                    /\ main_pc' = "spawn_progress"
                    /\ UNCHANGED <<use_gpu, exit_code>>
               ELSE /\ stderr' = Emit(stderr \o InitLines(fail),
                                      Line("warning"))
                    /\ use_gpu' = FALSE
                    /\ main_pc' = "spawn_progress"
                    /\ UNCHANGED <<gpu, gpu_ready, exit_code>>
       ELSE /\ main_pc' = "spawn_progress"
            /\ UNCHANGED <<gpu, gpu_ready, stderr, use_gpu, exit_code>>
    /\ UNCHANGED <<prefix, limit, num_threads, output_progress, simple_output,
                   gpu_threads, opt_gws, matcher, found_n, attempts, pc, key,
                   found_key, address, iter, stdout, stdout_buf, derived,
                   t_pc, t_pub, t_hit, result, ce, cl, main_i, printed, cuts,
                   err>>

\* pthread_create(&handle, NULL, start, arg): the thread t starts at `start`
\* and its handle is written, or no thread is created and the handle is
\* left as it was.  main does not look at the return value.
pthread_create(pcs, t, start, ok) ==
    IF ok THEN [pcs EXCEPT ![t] = start] ELSE pcs

\* Start progress thread first.
MainSpawnProgress ==
    /\ Running /\ main_pc = "spawn_progress"
    /\ \E ok \in BOOLEAN :
          pc' = IF output_progress
                THEN pthread_create(pc, ProgressId, "sleep", ok) ELSE pc
    /\ main_pc' = "spawn_cpu"
    /\ main_i' = 0
    /\ UNCHANGED <<gpu, gpu_ready, stderr, use_gpu, exit_code>>
    /\ UNCHANGED <<prefix, limit, num_threads, output_progress, simple_output,
                   gpu_threads, opt_gws, matcher, found_n, attempts, key,
                   found_key, address, iter, stdout, stdout_buf, derived,
                   t_pc, t_pub, t_hit, result, ce, cl, printed, cuts, err>>
\* Start CPU worker threads, one pthread_create per step.
MainSpawnCpu ==
    /\ Running /\ main_pc = "spawn_cpu"
    /\ \E ok \in BOOLEAN : pc' = pthread_create(pc, main_i + 1, "search", ok)
    /\ main_i' = main_i + 1
    /\ main_pc' = IF main_i + 1 < num_threads THEN "spawn_cpu" ELSE "spawn_gpu"
    /\ UNCHANGED <<gpu, gpu_ready, stderr, use_gpu, exit_code>>
    /\ UNCHANGED <<prefix, limit, num_threads, output_progress, simple_output,
                   gpu_threads, opt_gws, matcher, found_n, attempts, key,
                   found_key, address, iter, stdout, stdout_buf, derived,
                   t_pc, t_pub, t_hit, result, ce, cl, printed, cuts, err>>
\* Start GPU worker thread; main then waits in pthread_join.
MainSpawnGpu ==
    /\ Running /\ main_pc = "spawn_gpu"
    /\ \E ok \in BOOLEAN :
          pc' = IF gpu_ready
                THEN pthread_create(pc, GpuId, "launch", ok) ELSE pc
    /\ main_pc' = "join"
    /\ main_i' = 0
    /\ UNCHANGED <<gpu, gpu_ready, stderr, use_gpu, exit_code>>
    /\ UNCHANGED <<prefix, limit, num_threads, output_progress, simple_output,
                   gpu_threads, opt_gws, matcher, found_n, attempts, key,
                   found_key, address, iter, stdout, stdout_buf, derived,
                   t_pc, t_pub, t_hit, result, ce, cl, printed, cuts, err>>
\* Where main goes after pthread_join(cpu_threads[i], NULL) has returned.
AfterJoin(i) ==
    IF i + 1 < num_threads THEN "join"
    ELSE IF gpu_ready THEN "join_gpu" ELSE "cleanup"

\* Wait for threads: pthread_join(cpu_threads[i], NULL) returns when the
\* thread has returned.  On a handle pthread_create never wrote the
\* behaviour is undefined.
MainJoinCpu ==
    /\ Running /\ main_pc = "join"
    /\ pc[main_i + 1] \in {"unborn", "returned"}
    /\ \E ub \in UBOutcomes :
          IF pc[main_i + 1] = "unborn" /\ ub = "killed"
          THEN /\ exit_code' = Killed
               /\ UNCHANGED <<main_pc, main_i>>
          ELSE /\ main_pc' = AfterJoin(main_i)
               /\ main_i' = main_i + 1
               /\ UNCHANGED exit_code
    /\ UNCHANGED <<gpu, gpu_ready, stderr, use_gpu, pc>>
    /\ UNCHANGED <<prefix, limit, num_threads, output_progress, simple_output,
                   gpu_threads, opt_gws, matcher, found_n, attempts, key,
                   found_key, address, iter, stdout, stdout_buf, derived,
                   t_pc, t_pub, t_hit, result, ce, cl, printed, cuts, err>>
\* gpu_solana_cleanup(gpu): every resource released and the struct zeroed.
gpu_solana_cleanup(g) ==
    [ctx |-> "released", result_buf |-> 0, ranges |-> "none",
     global_work_size |-> 0]

\* pthread_join(gpu_thread, NULL), then gpu_solana_cleanup(&gpu_ctx).
MainJoinGpu ==
    /\ Running /\ main_pc = "join_gpu"
    /\ pc[GpuId] \in {"unborn", "returned"}
    /\ \E ub \in UBOutcomes :
          IF pc[GpuId] = "unborn" /\ ub = "killed"
          THEN /\ exit_code' = Killed
               /\ UNCHANGED <<main_pc, gpu>>
          ELSE /\ gpu' = gpu_solana_cleanup(gpu)
               /\ main_pc' = "cleanup"
               /\ UNCHANGED exit_code
    /\ UNCHANGED <<gpu_ready, stderr, use_gpu, pc, main_i>>
    /\ UNCHANGED <<prefix, limit, num_threads, output_progress, simple_output,
                   gpu_threads, opt_gws, matcher, found_n, attempts, key,
                   found_key, address, iter, stdout, stdout_buf, derived,
                   t_pc, t_pub, t_hit, result, ce, cl, printed, cuts, err>>
\* solana_matcher_free(&matcher)
solana_matcher_free(m) ==
    IF m.num_ranges = 0 /\ m.ranges = <<>> THEN m
    ELSE [m EXCEPT !.ranges = <<>>, !.num_ranges = 0]

\* Cleanup and the closing line.
MainFinish ==
    /\ Running /\ main_pc = "cleanup"
    /\ matcher' = solana_matcher_free(matcher)
    /\ stderr' = Emit(stderr, Line("completed"))
    /\ main_pc' = "return"
    /\ UNCHANGED <<prefix, limit, num_threads, use_gpu, output_progress,
                   simple_output, gpu_threads, opt_gws, found_n, attempts,
                   gpu_ready, gpu, pc, key, found_key, address, iter, derived,
                   t_pc, t_pub, t_hit, result, ce, cl, main_i, printed, cuts,
                   err, stdout, stdout_buf, exit_code>>

\* return 0, which writes the buffer of stdout like exit and ends the
\* process with every thread where it stands.
MainReturn ==
    /\ Running /\ main_pc = "return"
    /\ stdout' = Flush(stdout, stdout_buf)
    /\ stdout_buf' = <<>>
    /\ exit_code' = 0
    /\ main_pc' = "returned"
    /\ UNCHANGED <<prefix, limit, num_threads, use_gpu, output_progress,
                   simple_output, gpu_threads, opt_gws, found_n, attempts,
                   gpu_ready, gpu, pc, key, found_key, address, iter, derived,
                   t_pc, t_pub, t_hit, result, ce, cl, main_i, printed, cuts,
                   err, matcher, stderr>>

(***************************************************************************)
(* What both workers do with a confirmed match (vanity.c).                 *)
(***************************************************************************)
\* The newline that ends the progress line, when progress is reported: the
\* first call, made when none has been made.
WithNewline(stream, n) ==
    IF n < LeadCalls THEN Emit(stream, Line("newline")) ELSE stream

\* Print result (to stdout for simple output, stderr for verbose): the
\* worker makes its next calls, up to a place where it is overtaken, and
\* goes on to the fflush after the last.  printf leaves its bytes in the
\* buffer of stdout, which is a file or a pipe and so fully buffered;
\* stderr is not buffered.
PrintMatch(k, a, w) ==
    \E n \in Stops(printed[w], MatchCalls) :
       /\ IF simple_output
          THEN /\ stdout_buf' = PrintCalls(stdout_buf, MatchLine(k, a, w),
                                           LeadCalls, printed[w], n)
               /\ stderr' = WithNewline(stderr, printed[w])
          ELSE /\ stderr' = PrintCalls(WithNewline(stderr, printed[w]),
                                       MatchLine(k, a, w), LeadCalls,
                                       printed[w], n)
               /\ UNCHANGED stdout_buf
       /\ printed' = [printed EXCEPT ![w] = IF n = MatchCalls THEN 0 ELSE n]
       /\ cuts' = CutsAfter(n, MatchCalls)
       /\ pc' = [pc EXCEPT ![w] = IF n = MatchCalls THEN "flush" ELSE @]

\* fflush(stdout) in simple output, fflush(stderr) in verbose output; the
\* worker goes on to the fetch_add.
FlushMatch(w) ==
    /\ IF simple_output
       THEN /\ stdout' = Flush(stdout, stdout_buf)
            /\ stdout_buf' = <<>>
       ELSE UNCHANGED <<stdout, stdout_buf>>
    /\ pc' = [pc EXCEPT ![w] = "commit"]

\* The "GPU returned non-matching solution" line, written to stderr by 34
\* calls; the worker then starts its next iteration.
PrintDiag(k, w) ==
    \E n \in Stops(printed[w], LastCall + 1) :
       /\ stderr' = PrintCalls(stderr, DiagLine(k, w), 0, printed[w], n)
       /\ UNCHANGED stdout_buf
       /\ printed' = [printed EXCEPT ![w] = IF n = LastCall + 1 THEN 0 ELSE n]
       /\ cuts' = CutsAfter(n, LastCall + 1)
       /\ pc' = [pc EXCEPT ![w] = IF n = LastCall + 1 THEN "launch" ELSE @]

\* found = atomic_fetch_add(found_n, 1) + 1; the worker goes to its exit(0)
\* when the limit is reached, else on at `next`.
CommitMatch(w, next) ==
    LET found == found_n + 1
    IN /\ found_n' = found
       /\ pc' = [pc EXCEPT ![w] = IF LimitReached(limit, found)
                                  THEN "exit" ELSE next]

\* exit(0): the buffer of stdout is written and the process stops with
\* every thread where it stands.
WorkerExit(w) ==
    /\ Running /\ pc[w] = "exit"
    /\ exit_code' = 0
    /\ stdout' = Flush(stdout, stdout_buf)
    /\ stdout_buf' = <<>>
    /\ UNCHANGED <<prefix, limit, num_threads, use_gpu, output_progress,
                   simple_output, gpu_threads, opt_gws, main_pc, matcher,
                   found_n, attempts, gpu_ready, gpu, pc, key, found_key,
                   address, iter, stderr, derived, t_pc, t_pub, t_hit, result,
                   ce, cl, main_i, printed, cuts, err>>

(***************************************************************************)
(* CPU worker (vanity.c, cpu_worker_thread).                               *)
(***************************************************************************)
\* address after the range test: written by pubkey_to_base58 on a range hit,
\* empty when the range test fails.
RangeHitAddress(m, pubkey) ==
    IF solana_matcher_matches(m, pubkey) THEN pubkey_to_base58(pubkey) ELSE <<>>

\* The confirmation of a candidate: the Base58 prefix check on its address
\* (strncmp over the length of the prefix), when it has one.
Confirmed_NoPrefixCheck(a, p) == a # <<>>

Confirmed(a, p) == a # <<>> /\ strncmp_prefix(a, p)

\* One pass of the loop up to the print: derive, range test, prefix check.
\* A candidate that is not confirmed is counted and the key incremented.
\* The first pass follows randombytes_buf, which draws the key.
CpuSearch(w) ==
    /\ Running /\ pc[w] = "search"
    /\ Started < IterBound
    /\ iter' = [iter EXCEPT ![w] = @ + 1]
    /\ derived' = derived + 1
    /\ \E k \in (IF iter[w] = 0 THEN StartKeys ELSE {key[w]}),
          m \in {matcher}, p \in {prefix} :
       \E pubkey \in {secret_to_pubkey_solana(k)} :
       \E a \in {RangeHitAddress(m, pubkey)} :
          IF Confirmed(a, p)
          THEN /\ address' = [address EXCEPT ![w] = a]
               /\ key' = [key EXCEPT ![w] = k]
               /\ pc' = [pc EXCEPT ![w] = "print"]
               /\ UNCHANGED attempts
          ELSE /\ address' = IF a # <<>> THEN [address EXCEPT ![w] = a]
                               ELSE address
               /\ attempts' = CountAttempts(1)
               /\ key' = [key EXCEPT ![w] = IncrementKey(k)]
               /\ UNCHANGED pc
    /\ UNCHANGED <<prefix, limit, num_threads, use_gpu, output_progress,
                   simple_output, gpu_threads, opt_gws, main_pc, matcher,
                   exit_code, found_n, gpu_ready, gpu, found_key, stdout,
                   stderr, stdout_buf, t_pc, t_pub, t_hit, result, ce, cl,
                   main_i, printed, cuts, err>>

CpuPrint(w) ==
    /\ Running /\ pc[w] = "print" /\ w \in CpuIds
    /\ PrintMatch(key[w], address[w], w)
    /\ UNCHANGED <<prefix, limit, num_threads, use_gpu, output_progress,
                   simple_output, gpu_threads, opt_gws, main_pc, matcher,
                   exit_code, found_n, attempts, gpu_ready, gpu, key,
                   found_key, address, iter, stdout, derived, t_pc, t_pub,
                   t_hit, result, ce, cl, main_i, err>>

CpuFlush(w) ==
    /\ Running /\ pc[w] = "flush" /\ w \in CpuIds
    /\ FlushMatch(w)
    /\ UNCHANGED <<prefix, limit, num_threads, use_gpu, output_progress,
                   simple_output, gpu_threads, opt_gws, main_pc, matcher,
                   exit_code, found_n, attempts, gpu_ready, gpu, key,
                   found_key, address, iter, stderr, derived, t_pc, t_pub,
                   t_hit, result, ce, cl, main_i, printed, cuts, err>>

CpuCommit(w) ==
    /\ Running /\ pc[w] = "commit" /\ w \in CpuIds
    /\ CommitMatch(w, "count")
    /\ UNCHANGED <<prefix, limit, num_threads, use_gpu, output_progress,
                   simple_output, gpu_threads, opt_gws, main_pc, matcher,
                   exit_code, attempts, gpu_ready, gpu, key, found_key, address, iter,
                   stdout, stderr, stdout_buf, derived, t_pc, t_pub, t_hit, result,
                   ce, cl, main_i, printed, cuts, err>>

\* Update attempts counter and increment key, after a committed match.
CpuCount(w) ==
    /\ Running /\ pc[w] = "count"
    /\ attempts' = CountAttempts(1)
    /\ key' = [key EXCEPT ![w] = IncrementKey(@)]
    /\ pc' = [pc EXCEPT ![w] = "search"]
    /\ UNCHANGED <<prefix, limit, num_threads, use_gpu, output_progress,
                   simple_output, gpu_threads, opt_gws, main_pc, matcher,
                   exit_code, found_n, gpu_ready, gpu, found_key, address,
                   iter, stdout, stderr, stdout_buf, derived, t_pc, t_pub,
                   t_hit, result, ce, cl, main_i, printed, cuts, err>>

(***************************************************************************)
(* The device kernel (opencl/entry.cl), by its contract: work item g tries *)
(* the key root[0..29] with the 24-bit tail g and tests its public key     *)
(* against the range tables; any one matching item writes its id.          *)
(***************************************************************************)
KernelCandidate(root, g) ==
    [i \in 1..32 |->
        IF i <= 29 THEN root[i]
        ELSE IF i = 30 THEN (g \div 65536) % 256
        ELSE IF i = 31 THEN (g \div 256) % 256
        ELSE g % 256]

KernelMatches(root, G, m) ==
    {g \in 0..(G - 1) :
        \E pubkey \in {secret_to_pubkey_solana(KernelCandidate(root, g))} :
            solana_matcher_matches(m, pubkey)}

\* The sets of work items that may match in one launch: the items whose
\* key is in a range of the matcher when the tables on the device were
\* written, any items when a table holds what its fresh buffer held.
KernelHits(root, G, m, ranges) ==
    IF ranges = "written" THEN {KernelMatches(root, G, m)}
    ELSE SUBSET (0..(G - 1))

\* The values the result cell may hold after a launch in which the work
\* items `hits` matched.
KernelCells(cell, hits) == IF hits = {} THEN {cell} ELSE hits

\* What a device that breaks the contract may write besides: the id of an
\* item that did not match, and ids of 2^24 and more.
BrokenIds == {0, 16777216 + 1, 16777216 + 2}

DeviceCells(cell, hits, broken) ==
    IF broken THEN KernelCells(cell, hits) \cup BrokenIds
    ELSE KernelCells(cell, hits)

(***************************************************************************)
(* Host side of a launch (gpu.h, gpu_solana_compute).                      *)
(***************************************************************************)
\* How the OpenCL calls of one launch end.
Outcomes == {"ok", "write_fail", "enqueue_fail", "read_fail", "reset_fail"}

\* Reconstruct the private key from the root and the global id.
Reconstruct_TailReversed(key_root, global_id) ==
    [i \in 1..32 |->
        IF i <= 29 THEN key_root[i]
        ELSE IF i = 30 THEN global_id % 256
        ELSE IF i = 31 THEN (global_id \div 256) % 256
        ELSE (global_id \div 65536) % 256]

Reconstruct(key_root, global_id) ==
    [i \in 1..32 |->
        IF i <= 29 THEN key_root[i]
        ELSE IF i = 30 THEN (global_id \div 65536) % 256
        ELSE IF i = 31 THEN (global_id \div 256) % 256
        ELSE global_id % 256]

\* gpu_solana_compute(gpu, out, key_root): the return value, out (found_key
\* before the call when it is not written), the result cell afterwards and
\* the line the call writes to stderr.  `after` is the cell as the kernel
\* leaves it.  The write that resets the cell may fail like the others,
\* and its return value is not looked at.
gpu_solana_compute_FailureAsNotFound(cell, out, key_root, outcome, after) ==
    IF outcome = "write_fail"
    THEN [ret |-> 0, out |-> out, result_buf |-> cell,
          line |-> "gpu_write_error"]
    ELSE IF outcome = "enqueue_fail"
    THEN [ret |-> 0, out |-> out, result_buf |-> cell,
          line |-> "gpu_enqueue_error"]
    ELSE IF outcome = "read_fail"
    THEN [ret |-> 0, out |-> out, result_buf |-> after,
          line |-> "gpu_read_error"]
    ELSE IF after # Sentinel
    THEN [ret |-> 1, out |-> Reconstruct(key_root, after),
          result_buf |-> IF outcome = "reset_fail" THEN after ELSE Sentinel,
          line |-> "none"]
    ELSE [ret |-> 0, out |-> out, result_buf |-> after, line |-> "none"]

gpu_solana_compute(cell, out, key_root, outcome, after) ==
    IF outcome = "write_fail"
    THEN [ret |-> -1, out |-> out, result_buf |-> cell,
          line |-> "gpu_write_error"]
    ELSE IF outcome = "enqueue_fail"
    THEN [ret |-> -1, out |-> out, result_buf |-> cell,
          line |-> "gpu_enqueue_error"]
    ELSE IF outcome = "read_fail"
    THEN [ret |-> -1, out |-> out, result_buf |-> after,
          line |-> "gpu_read_error"]
    ELSE IF after # Sentinel
    THEN [ret |-> 1, out |-> Reconstruct(key_root, after),
          result_buf |-> IF outcome = "reset_fail" THEN after ELSE Sentinel,
          line |-> "none"]
    ELSE [ret |-> 0, out |-> out, result_buf |-> after, line |-> "none"]

\* stderr after a call that wrote `line`.
WithErrorLine(line) ==
    IF line = "none" THEN stderr ELSE Emit(stderr, Line(line))

\* What an OpenCL call whose return value is tested may return: CL_SUCCESS
\* or an error code, all of which are negative.
ClErrors == {0, -1}

(***************************************************************************)
(* GPU worker (vanity.c, gpu_worker_thread).                               *)
(***************************************************************************)
\* The address of a returned solution: secret_to_pubkey_solana and
\* pubkey_to_base58 on found_key; empty when nothing was returned.
SolutionAddress(ret, k) ==
    IF ret > 0 THEN KeyAddress(k) ELSE <<>>

\* A pass of the loop begins: randombytes_buf(key_base), the call of
\* gpu_solana_compute and its write of the root to the device.  When the
\* write fails the call prints its line and returns.
GpuWriteRoot ==
    /\ Running /\ pc[GpuId] = "launch"
    /\ Started < IterBound
    /\ iter' = [iter EXCEPT ![GpuId] = @ + 1]
    /\ \E root \in GpuRoots, e \in ClErrors :
          /\ key' = [key EXCEPT ![GpuId] = root]
          /\ err' = e
          /\ IF e < 0
             THEN \E cell \in {gpu.result_buf}, out \in {found_key} :
                  \E r \in {gpu_solana_compute(cell, out, root,
                                                "write_fail", cell)} :
                     /\ found_key' = r.out
                     /\ result' = r.ret
                     /\ stderr' = WithErrorLine(r.line)
                     /\ pc' = [pc EXCEPT ![GpuId] = "count"]
             ELSE /\ pc' = [pc EXCEPT ![GpuId] = "enqueue"]
                  /\ UNCHANGED <<found_key, result, stderr>>
    /\ UNCHANGED <<prefix, limit, num_threads, use_gpu, output_progress,
                   simple_output, gpu_threads, opt_gws, main_pc, matcher,
                   exit_code, found_n, attempts, gpu_ready, gpu, address,
                   stdout, stdout_buf, derived, t_pc, t_pub, t_hit, ce, cl,
                   main_i, printed, cuts>>

\* clEnqueueNDRangeKernel and clFinish: the kernel runs over the work
\* items and leaves its id in the cell, or the enqueue fails and the call
\* prints its line and returns.  `broken` tells whether the device keeps
\* the kernel contract.
GpuKernel(broken) ==
    /\ Running /\ pc[GpuId] = "enqueue"
    /\ \E root \in {key[GpuId]}, cell \in {gpu.result_buf},
          G \in {gpu.global_work_size}, m \in {matcher}, out \in {found_key},
          e \in ClErrors :
          /\ err' = e
          /\ IF e < 0
             THEN \E r \in {gpu_solana_compute(cell, out, root,
                                                "enqueue_fail", cell)} :
                     /\ found_key' = r.out
                     /\ result' = r.ret
                     /\ stderr' = WithErrorLine(r.line)
                     /\ pc' = [pc EXCEPT ![GpuId] = "count"]
                     /\ UNCHANGED <<gpu, derived>>
             ELSE \E hits \in KernelHits(root, G, m, gpu.ranges) :
                  \E after \in DeviceCells(cell, hits, broken) :
                     /\ gpu' = [gpu EXCEPT !.result_buf = after]
                     /\ derived' = derived + G
                     /\ pc' = [pc EXCEPT ![GpuId] = "read"]
                     /\ UNCHANGED <<found_key, result, stderr>>
    /\ UNCHANGED <<prefix, limit, num_threads, use_gpu, output_progress,
                   simple_output, gpu_threads, opt_gws, main_pc, matcher,
                   exit_code, found_n, attempts, gpu_ready, key, address,
                   iter, stdout, stdout_buf, t_pc, t_pub, t_hit, ce, cl,
                   main_i, printed, cuts>>

GpuRun == GpuKernel(FALSE)

\* clEnqueueReadBuffer of the cell and the return of gpu_solana_compute:
\* the line of a failed read, or the reset of the cell and the key of the
\* id that was read, or nothing found.
GpuRead ==
    /\ Running /\ pc[GpuId] = "read"
    /\ \E root \in {key[GpuId]}, cell \in {gpu.result_buf},
          out \in {found_key}, e \in ClErrors, reset \in ClErrors :
       \E outcome \in {IF e < 0 THEN "read_fail"
                        ELSE IF reset < 0 THEN "reset_fail" ELSE "ok"} :
       \E r \in {gpu_solana_compute(cell, out, root, outcome, cell)} :
          /\ err' = e
          /\ gpu' = [gpu EXCEPT !.result_buf = r.result_buf]
          /\ found_key' = r.out
          /\ result' = r.ret
          /\ stderr' = WithErrorLine(r.line)
    /\ pc' = [pc EXCEPT ![GpuId] = "count"]
    /\ UNCHANGED <<prefix, limit, num_threads, use_gpu, output_progress,
                   simple_output, gpu_threads, opt_gws, main_pc, matcher,
                   exit_code, found_n, attempts, gpu_ready, key, address,
                   iter, stdout, stdout_buf, derived, t_pc, t_pub, t_hit,
                   ce, cl, main_i, printed, cuts>>

\* After the call: the attempts counter, then `continue` or the
\* verification of the solution, which is printed as a match when its
\* address has the prefix and reported when it has not.
GpuCount ==
    /\ Running /\ pc[GpuId] = "count"
    /\ attempts' = CountAttempts(gpu_threads)
    /\ \E a \in {SolutionAddress(result, found_key)}, p \in {prefix} :
          IF result <= 0
          THEN /\ pc' = [pc EXCEPT ![GpuId] = "launch"]
               /\ UNCHANGED address
          ELSE /\ address' = [address EXCEPT ![GpuId] = a]
               /\ pc' = [pc EXCEPT ![GpuId] =
                             IF Confirmed(a, p) THEN "print" ELSE "diag"]
    /\ UNCHANGED <<prefix, limit, num_threads, use_gpu, output_progress,
                   simple_output, gpu_threads, opt_gws, main_pc, matcher,
                   exit_code, found_n, gpu_ready, gpu, key, found_key, iter,
                   stdout, stderr, stdout_buf, derived, t_pc, t_pub, t_hit,
                   result, ce, cl, main_i, printed, cuts, err>>

\* What the GPU worker prints for a verified solution and for one that
\* fails the check.
GpuPrint ==
    /\ Running /\ pc[GpuId] \in {"print", "diag"}
    /\ IF pc[GpuId] = "print"
       THEN PrintMatch(found_key, address[GpuId], GpuId)
       ELSE PrintDiag(found_key, GpuId)
    /\ UNCHANGED <<prefix, limit, num_threads, use_gpu, output_progress,
                   simple_output, gpu_threads, opt_gws, main_pc, matcher,
                   exit_code, found_n, attempts, gpu_ready, gpu, key,
                   found_key, address, iter, stdout, derived, t_pc, t_pub,
                   t_hit, result, ce, cl, main_i, err>>

GpuFlush ==
    /\ Running /\ pc[GpuId] = "flush"
    /\ FlushMatch(GpuId)
    /\ UNCHANGED <<prefix, limit, num_threads, use_gpu, output_progress,
                   simple_output, gpu_threads, opt_gws, main_pc, matcher,
                   exit_code, found_n, attempts, gpu_ready, gpu, key,
                   found_key, address, iter, stderr, derived, t_pc, t_pub,
                   t_hit, result, ce, cl, main_i, printed, cuts, err>>

GpuCommit ==
    /\ Running /\ pc[GpuId] = "commit"
    /\ CommitMatch(GpuId, "launch")
    /\ UNCHANGED <<prefix, limit, num_threads, use_gpu, output_progress,
                   simple_output, gpu_threads, opt_gws, main_pc, matcher,
                   exit_code, attempts, gpu_ready, gpu, key, found_key, address, iter,
                   stdout, stderr, stdout_buf, derived, t_pc, t_pub, t_hit, result,
                   ce, cl, main_i, printed, cuts, err>>

(***************************************************************************)
(* Progress reporter (vanity.c, progress_thread).                          *)
(***************************************************************************)
\* One pass of the loop: usleep, atomic_load(attempts), the text
\* "\rTried N keys (R keys/s)" on stderr, fflush(stderr).
ProgressTick ==
    /\ Running /\ pc[ProgressId] = "sleep"
    /\ ProgressTexts < MaxTicks
    /\ stderr' = Append(stderr, Line("progress"))
    /\ UNCHANGED <<prefix, limit, num_threads, use_gpu, output_progress,
                   simple_output, gpu_threads, opt_gws, main_pc, matcher,
                   exit_code, found_n, attempts, gpu_ready, gpu, pc, key,
                   found_key, address, iter, stdout, stdout_buf, derived,
                   t_pc, t_pub, t_hit, result, ce, cl, main_i, printed, cuts,
                   err>>

Next ==
    \/ MainCompile
    \/ MainPlan
    \/ MainGpuInit
    \/ MainSpawnProgress
    \/ MainSpawnCpu
    \/ MainSpawnGpu
    \/ MainJoinCpu
    \/ MainJoinGpu
    \/ MainFinish
    \/ MainReturn
    \/ \E w \in CpuIds : CpuSearch(w)
    \/ \E w \in CpuIds : CpuPrint(w)
    \/ \E w \in CpuIds : CpuFlush(w)
    \/ \E w \in CpuIds : CpuCommit(w)
    \/ \E w \in CpuIds : CpuCount(w)
    \/ GpuWriteRoot
    \/ GpuRun
    \/ GpuRead
    \/ GpuCount
    \/ GpuPrint
    \/ GpuFlush
    \/ GpuCommit
    \/ \E w \in CpuIds \cup {GpuId} : WorkerExit(w)
    \/ ProgressTick

Spec == Init /\ [][Next]_vars

(***************************************************************************)
(* The program with one CPU worker and a GPU whose device may return any   *)
(* id, run with the largest --limit and no work size override.             *)
(***************************************************************************)
GpuRunBroken == GpuKernel(TRUE)

InitBroken ==
    /\ prefix \in RunPrefixes
    /\ limit = MaxLimit
    /\ num_threads = 1
    /\ use_gpu = TRUE
    /\ output_progress \in BOOLEAN
    /\ simple_output \in BOOLEAN
    /\ gpu_threads \in GpuThreadsChoices
    /\ opt_gws = 0
    /\ InitShared
    /\ t_pc = "off"
    /\ t_pub = NoKey
    /\ t_hit = FALSE

NextBroken ==
    \/ MainCompile
    \/ MainPlan
    \/ MainGpuInit
    \/ MainSpawnProgress
    \/ MainSpawnCpu
    \/ MainSpawnGpu
    \/ MainJoinCpu
    \/ MainJoinGpu
    \/ MainFinish
    \/ MainReturn
    \/ \E w \in CpuIds : CpuSearch(w)
    \/ \E w \in CpuIds : CpuPrint(w)
    \/ \E w \in CpuIds : CpuFlush(w)
    \/ \E w \in CpuIds : CpuCommit(w)
    \/ \E w \in CpuIds : CpuCount(w)
    \/ GpuWriteRoot
    \/ GpuRunBroken
    \/ GpuRead
    \/ GpuCount
    \/ GpuPrint
    \/ GpuFlush
    \/ GpuCommit
    \/ \E w \in CpuIds \cup {GpuId} : WorkerExit(w)
    \/ ProgressTick

SpecBroken == InitBroken /\ [][NextBroken]_vars

(***************************************************************************)
(* The program with one CPU worker, the GPU and a limit, without the       *)
(* progress reporter, followed for MaxIterLong iterations.                 *)
(***************************************************************************)
InitSurplus ==
    /\ prefix = <<"A">>
    /\ limit \in 1..MaxLimit
    /\ num_threads = 1
    /\ use_gpu = TRUE
    /\ output_progress = FALSE
    /\ simple_output \in BOOLEAN
    /\ gpu_threads \in GpuThreadsChoices
    /\ opt_gws = 0
    /\ InitShared
    /\ t_pc = "long"
    /\ t_pub = NoKey
    /\ t_hit = FALSE

NextSurplus ==
    \/ MainCompile
    \/ MainPlan
    \/ MainGpuInit
    \/ MainSpawnProgress
    \/ MainSpawnCpu
    \/ MainSpawnGpu
    \/ MainJoinCpu
    \/ MainJoinGpu
    \/ MainFinish
    \/ MainReturn
    \/ \E w \in CpuIds : CpuSearch(w)
    \/ \E w \in CpuIds : CpuPrint(w)
    \/ \E w \in CpuIds : CpuFlush(w)
    \/ \E w \in CpuIds : CpuCommit(w)
    \/ \E w \in CpuIds : CpuCount(w)
    \/ GpuWriteRoot
    \/ GpuRun
    \/ GpuRead
    \/ GpuCount
    \/ GpuPrint
    \/ GpuFlush
    \/ GpuCommit
    \/ \E w \in CpuIds \cup {GpuId} : WorkerExit(w)

SpecSurplus == InitSurplus /\ [][NextSurplus]_vars

(***************************************************************************)
(* The range compiler and the matcher on their own: one prefix is compiled *)
(* and, when that succeeds, one public key is put to the matcher.          *)
(***************************************************************************)
\* Prefixes put to prefix_to_all_ranges; the last has 34 characters.
TestPrefixes ==
    {<<>>, <<"1">>, <<"1", "1">>, <<"2">>, <<"4">>, <<"A">>, <<"J">>, <<"a">>,
     <<"z">>, <<"S", "o">>, <<"S", "o", "L">>, <<"0">>, <<"a", "l">>,
     <<"J", "E", "K", "N", "V", "n", "k", "b", "o", "3", "j", "m", "a",
       "5", "n", "R", "E", "B", "B", "J", "C", "D", "o", "X", "F", "V",
       "e", "K", "k", "D", "5", "6", "V", "3">>,
     <<"S", "o", "L", "a", "n", "a", "V", "a", "n", "i", "t">>,
     <<"S", "o", "L", "a", "n", "a", "V", "a", "n", "i", "t", "y">>}

\* The characters that fill an address up behind the prefix.
PadChars == {"1", "5", "L", "e", "z"}

\* Public keys not built from the prefix.
FixedPubkeys ==
    {Fill(SOLANA_PUBKEY_SIZE, 0), Fill(SOLANA_PUBKEY_SIZE, 255),
     <<0>> \o Fill(SOLANA_PUBKEY_SIZE - 1, 255),
     <<1>> \o Fill(SOLANA_PUBKEY_SIZE - 1, 0)}

\* The 32-byte keys whose address is p followed by one repeated character,
\* for every address length, and the fixed keys.
TestPubkeys(p) ==
    LET decoded == {base58_decode(p \o Fill(n - Len(p), c)) :
                       n \in {l \in MinTargetLen..MaxTargetLen : l >= Len(p)},
                       c \in PadChars}
    IN {d.buf : d \in {e \in decoded : e.len = SOLANA_PUBKEY_SIZE}}
       \cup FixedPubkeys

\* The key before k: subtract one, borrowing from byte 31 toward byte 0.
RECURSIVE DecAt(_, _)
DecAt(k, i) ==
    IF i = 0 THEN k
    ELSE LET k2 == [k EXCEPT ![i] = (k[i] + 255) % 256]
         IN IF k2[i] # 255 THEN k2 ELSE DecAt(k2, i - 1)

\* The keys next to the bounds of the ranges of m, on the outside.
Neighbours(m) ==
    UNION {{DecAt(m.ranges[i].min, SOLANA_PUBKEY_SIZE),
            IncrementKey(m.ranges[i].max)} : i \in 1..m.num_ranges}

InitMatch ==
    /\ prefix \in TestPrefixes
    /\ limit = 0
    /\ num_threads = 1
    /\ use_gpu = FALSE
    /\ output_progress = FALSE
    /\ simple_output = FALSE
    /\ gpu_threads \in GpuThreadsChoices
    /\ opt_gws = 0
    /\ InitShared
    /\ t_pc = "compile"
    /\ t_pub = NoKey
    /\ t_hit = FALSE

\* prefix_to_all_ranges(prefix, &matcher)
Compile ==
    /\ t_pc = "compile"
    /\ \E p \in {prefix}, m \in {matcher} :
       LET r == prefix_to_all_ranges(p, m)
       IN /\ matcher' = r.matcher
          /\ t_pc' = IF r.ret = 0 THEN "compiled" ELSE "failed"
    /\ UNCHANGED <<prefix, limit, num_threads, use_gpu, output_progress,
                   simple_output, gpu_threads, opt_gws, main_pc, exit_code,
                   found_n, attempts, gpu_ready, gpu, pc, key, found_key,
                   address, iter, stdout, stderr, stdout_buf, derived,
                   t_pub, t_hit, result, ce, cl, main_i, printed, cuts, err>>

\* solana_matcher_matches(&matcher, pubkey)
Match ==
    /\ t_pc = "compiled"
    /\ \E p \in {prefix}, m \in {matcher} :
       \E pubkey \in TestPubkeys(p) \cup Neighbours(m) :
          /\ t_pub' = pubkey
          /\ t_hit' = solana_matcher_matches(m, pubkey)
    /\ t_pc' = "matched"
    /\ UNCHANGED <<prefix, limit, num_threads, use_gpu, output_progress,
                   simple_output, gpu_threads, opt_gws, main_pc, matcher,
                   exit_code, found_n, attempts, gpu_ready, gpu, pc, key,
                   found_key, address, iter, stdout, stderr, stdout_buf,
                   derived, result, ce, cl, main_i, printed, cuts, err>>

\* get_estimates_gmp(&matcher, &ce)
Estimate ==
    /\ t_pc = "compiled"
    /\ \E m \in {matcher} : ce' = get_estimates_gmp(m)
    /\ t_pc' = "estimated"
    /\ UNCHANGED <<prefix, limit, num_threads, use_gpu, output_progress,
                   simple_output, gpu_threads, opt_gws, main_pc, matcher,
                   exit_code, found_n, attempts, gpu_ready, gpu, pc, key,
                   found_key, address, iter, stdout, stderr, stdout_buf,
                   derived, t_pub, t_hit, result, cl, main_i, printed, cuts,
                   err>>

NextMatch == Compile \/ Match \/ Estimate

SpecMatch == InitMatch /\ [][NextMatch]_vars

(***************************************************************************)
(* The key increment on its own: a key is drawn and incremented a number   *)
(* of times.                                                               *)
(***************************************************************************)
MaxIncs == 3         \* increments applied to one key

\* A key that ends in t bytes 0xFF, with `mid` before them and `front` in
\* every byte further to the front.
CarryKey(front, mid, t) ==
    [i \in 1..SOLANA_PRIVKEY_SIZE |->
        IF i > SOLANA_PRIVKEY_SIZE - t THEN 255
        ELSE IF i = SOLANA_PRIVKEY_SIZE - t THEN mid
        ELSE front]

\* What randombytes_buf may give: keys at and near a carry, up to the key
\* of all 0xFF.
CarryKeys ==
    {CarryKey(front, mid, t) :
        front \in {0, 7, 255}, mid \in {0, 253, 254, 255},
        t \in {0, 1, 2, 30, 31, 32}}

InitInc ==
    /\ prefix = <<>>
    /\ limit = 0
    /\ num_threads = 1
    /\ use_gpu = FALSE
    /\ output_progress = FALSE
    /\ simple_output = FALSE
    /\ gpu_threads \in GpuThreadsChoices
    /\ opt_gws = 0
    /\ main_pc = "compile"
    /\ matcher = UnsetMatcher
    /\ exit_code = -1
    /\ found_n = 0
    /\ attempts = 0
    /\ gpu_ready = FALSE
    /\ gpu = [ctx |-> "none", result_buf |-> Sentinel, ranges |-> "none",
              global_work_size |-> 0]
    /\ pc = [w \in Threads |-> "unborn"]
    /\ t_pub \in CarryKeys
    /\ key = [w \in Threads |-> IF w = 1 THEN t_pub ELSE NoKey]
    /\ found_key = NoKey
    /\ result = 0
    /\ ce = UnsetEstimates
    /\ main_i = 0
    /\ printed = [w \in Threads |-> 0]
    /\ cuts = 0
    /\ err = 0
    /\ cl = NoResources
    /\ address = [w \in Threads |-> <<>>]
    /\ iter = [w \in Threads |-> 0]
    /\ stdout = <<>>
    /\ stderr = <<>>
    /\ stdout_buf = <<>>
    /\ derived = 0
    /\ t_pc = "inc"
    /\ t_hit = FALSE

\* Increment key: the for loop over the bytes, once.
Increment ==
    /\ t_pc = "inc"
    /\ iter[1] < MaxIncs
    /\ key' = [key EXCEPT ![1] = IncrementKey(@)]
    /\ iter' = [iter EXCEPT ![1] = @ + 1]
    /\ UNCHANGED <<prefix, limit, num_threads, use_gpu, output_progress,
                   simple_output, gpu_threads, opt_gws, main_pc, matcher,
                   exit_code, found_n, attempts, gpu_ready, gpu, pc,
                   found_key, address, stdout, stderr, stdout_buf,
                   derived, t_pc, t_pub, t_hit, result, ce, cl, main_i,
                   printed, cuts, err>>

NextInc == Increment

SpecInc == InitInc /\ [][NextInc]_vars

(***************************************************************************)
(* gpu_solana_compute on its own: the device holds a value in the result   *)
(* cell, and one call reads it back.                                       *)
(***************************************************************************)
\* Roots whose bytes all differ from their neighbours.
ComputeRoots ==
    {[i \in 1..SOLANA_PRIVKEY_SIZE |-> i],
     [i \in 1..SOLANA_PRIVKEY_SIZE |-> 255 - i],
     Key3(0, 18, 0)}

\* What the result cell may hold when it is read back: the sentinel, ids
\* below 2^24 and ids of 2^24 and more.
ComputeCells ==
    {Sentinel, 0, 1, 255, 256, 65535, 65536, 66051, 8388608, 16777215,
     16777216, 16777216 + 66051, 33554432 + 255}

\* What out may hold before the call.
ComputeOuts == {NoKey, Key3(9, 9, 9)}

InitCompute ==
    /\ prefix = <<>>
    /\ limit = 0
    /\ num_threads = 1
    /\ use_gpu = TRUE
    /\ output_progress = FALSE
    /\ simple_output = FALSE
    /\ gpu_threads \in GpuThreadsChoices
    /\ opt_gws = 0
    /\ main_pc = "join"
    /\ matcher = UnsetMatcher
    /\ exit_code = -1
    /\ found_n = 0
    /\ attempts = 0
    /\ gpu_ready = TRUE
    /\ \E cell \in ComputeCells :
          gpu = [ctx |-> "held", result_buf |-> cell, ranges |-> "written",
                 global_work_size |-> GlobalWorkSize(opt_gws, gpu_threads)]
    /\ pc = [w \in Threads |-> "unborn"]
    /\ key = [w \in Threads |-> NoKey]
    /\ found_key \in ComputeOuts
    /\ result = 0
    /\ ce = UnsetEstimates
    /\ main_i = 0
    /\ printed = [w \in Threads |-> 0]
    /\ cuts = 0
    /\ err = 0
    /\ cl = NoResources
    /\ address = [w \in Threads |-> <<>>]
    /\ iter = [w \in Threads |-> 0]
    /\ stdout = <<>>
    /\ stderr = <<>>
    /\ stdout_buf = <<>>
    /\ derived = 0
    /\ t_pc = "compute"
    /\ t_pub \in ComputeRoots
    /\ t_hit = FALSE

\* result = gpu_solana_compute(gpu, found_key, key_root)
Compute ==
    /\ t_pc = "compute"
    /\ \E cell \in {gpu.result_buf}, out \in {found_key}, root \in {t_pub},
          outcome \in Outcomes :
        \E r \in {gpu_solana_compute(cell, out, root, outcome, cell)} :
           /\ gpu' = [gpu EXCEPT !.result_buf = r.result_buf]
           /\ found_key' = r.out
           /\ result' = r.ret
           /\ stderr' = WithErrorLine(r.line)
           /\ err' = IF r.line = "none" THEN 0 ELSE -1
    /\ t_pc' = "computed"
    /\ UNCHANGED <<prefix, limit, num_threads, use_gpu, output_progress,
                   simple_output, gpu_threads, opt_gws, main_pc, matcher,
                   exit_code, found_n, attempts, gpu_ready, pc, key, address,
                   iter, stdout, stdout_buf, derived, t_pub, t_hit, ce, cl,
                   main_i, printed, cuts>>

NextCompute == Compute

SpecCompute == InitCompute /\ [][NextCompute]_vars

(***************************************************************************)
(* Harness: gpu_solana_init at every failure point.                        *)
(***************************************************************************)
InitGpuInit ==
    /\ prefix = <<>>
    /\ limit = 0
    /\ num_threads = 1
    /\ use_gpu = TRUE
    /\ output_progress = FALSE
    /\ simple_output = FALSE
    /\ gpu_threads \in GpuThreadsChoices
    /\ opt_gws = 0
    /\ main_pc = "gpu_init"
    /\ matcher = UnsetMatcher
    /\ exit_code = -1
    /\ found_n = 0
    /\ attempts = 0
    /\ gpu_ready = FALSE
    /\ gpu = [ctx |-> "none", result_buf |-> Sentinel, ranges |-> "none",
              global_work_size |-> 0]
    /\ pc = [w \in Threads |-> "unborn"]
    /\ key = [w \in Threads |-> NoKey]
    /\ found_key = NoKey
    /\ result = 0
    /\ ce = UnsetEstimates
    /\ main_i = 0
    /\ printed = [w \in Threads |-> 0]
    /\ cuts = 0
    /\ err = 0
    /\ \E fail \in FailPoints, garbage \in SUBSET Buffers :
          cl = [NoResources EXCEPT !.fail = fail, !.garbage = garbage]
    /\ address = [w \in Threads |-> <<>>]
    /\ iter = [w \in Threads |-> 0]
    /\ stdout = <<>>
    /\ stderr = <<>>
    /\ stdout_buf = <<>>
    /\ derived = 0
    /\ t_pc = "gpu_init"
    /\ t_pub = NoKey
    /\ t_hit = FALSE

\* gpu_solana_init(&gpu_ctx, &gpu_opts): what it writes to stderr, the
\* struct it fills when it succeeds, its releases, and the end of the
\* process when a release of a field never written is fatal: the releases
\* are then those made up to the fatal one.
GpuInit ==
    /\ t_pc = "gpu_init"
    /\ \E c \in {cl}, failed \in SUBSET InitWrites, fresh \in FreshCells :
       \E r \in {gpu_solana_init(c.fail, c.garbage)},
          crash \in CrashPoints(c.fail, c.garbage) :
          /\ stderr' = stderr \o InitLines(c.fail)
          /\ IF crash # "none"
             THEN /\ cl' = [c EXCEPT !.acquired = r.acquired,
                                     !.released =
                                         ReleasedUntil(c.fail, c.garbage,
                                                       crash)]
                  /\ exit_code' = Killed
                  /\ UNCHANGED gpu
             ELSE /\ cl' = [c EXCEPT !.ret = r.ret, !.acquired = r.acquired,
                                     !.released = r.released]
                  /\ gpu' = IF r.ret = 0
                            THEN [ctx |-> "held",
                                  result_buf |-> CellAfterInit(failed, fresh),
                                  ranges |-> RangesAfterInit(failed),
                                  global_work_size |->
                                      GlobalWorkSize(opt_gws, gpu_threads)]
                            ELSE gpu
                  /\ UNCHANGED exit_code
    /\ t_pc' = "gpu_done"
    /\ UNCHANGED <<prefix, limit, num_threads, use_gpu, output_progress,
                   simple_output, gpu_threads, opt_gws, main_pc, matcher,
                   found_n, attempts, gpu_ready, pc, key, found_key, address,
                   iter, stdout, stdout_buf, derived, t_pub, t_hit, result,
                   ce, main_i, printed, cuts, err>>

NextGpuInit == GpuInit

SpecGpuInit == InitGpuInit /\ [][NextGpuInit]_vars

(***************************************************************************)
(* Properties.                                                             *)
(***************************************************************************)
Workers == CpuIds \cup {GpuId}

\* The workers that have printed and flushed a record and not yet added it
\* to found_n.
Uncommitted == {w \in Workers : pc[w] = "commit"}

\* The workers that have made the last call of a record and stand before
\* the fflush.
Unflushed == {w \in Workers : pc[w] = "flush"}

\* What a step writes to a stream: the elements it appends, and the last
\* element when the step continues it.
Appended(old, new) ==
    {new[i] : i \in {j \in 1..Len(new) : j > Len(old) \/ new[j] # old[j]}}

NewLines == Appended(stdout, stdout') \cup Appended(stderr, stderr')

\* The keys whose public key was worked out beforehand, with the address
\* of each.
TriedKeys == {d[1] : d \in DerivedBefore}

AddressOf == [k \in TriedKeys |-> KeyAddress(k)]

\* base58_encode(Derive(k))
Address(k) == IF k \in TriedKeys THEN AddressOf[k] ELSE KeyAddress(k)

\* C1: with a limit L >= 1, never more than L match records are emitted, and
\* the process stops with exactly L of them.
C1_ExactlyLimitRecords ==
    limit >= 1 => /\ Emitted <= limit
                  /\ exit_code = 0 => Emitted = limit

\* C2: every match record a step emits carries a key k and an address a with
\* a = base58_encode(Derive(k)), and a begins with the prefix.
C2_RecordsAreMatches ==
    [][\A l \in NewLines : \A p \in {prefix} :
          IsMatchLine(l) =>
              /\ l.addr = Address(l.key)
              /\ strncmp_prefix(l.addr, p)]_vars

\* Both a CPU worker and the GPU worker have emitted a record, and the
\* calls of one of the two records were parted by calls of another thread.
C2_Witness ==
    /\ \E i \in 1..Emitted : Records[i].by \in CpuIds
    /\ \E i \in 1..Emitted : Records[i].by = GpuId
    /\ \E i \in 1..Emitted : Records[i].from # FirstCall

\* C4: the match records emitted and flushed so far are at least found_n:
\* they are the records counted in found_n, one for each worker between
\* its fflush and its fetch_add, and at most one for each worker that has
\* made the last call and stands before its fflush (in verbose output,
\* where nothing is buffered, exactly one).
C4_EmittedBeforeCounted ==
    /\ Emitted >= found_n
    /\ Emitted >= found_n + Cardinality(Uncommitted)
    /\ Emitted <= found_n + Cardinality(Uncommitted \cup Unflushed)
    /\ ~simple_output =>
          Emitted = found_n + Cardinality(Uncommitted \cup Unflushed)

\* found_n has reached the limit of two records.
C4_Witness == limit = 2 /\ found_n = limit /\ Emitted >= 2

\* What a worker changes when it derives, counts or emits: its position,
\* its iteration count and its key.
Acted(w) == pc'[w] # pc[w] \/ iter'[w] # iter[w] \/ key'[w] # key[w]

\* C5: with a limit L # 0, the worker whose fetch_add makes found >= L goes
\* straight to exit(0); from there it derives, counts and prints nothing
\* more, and a call of exit(0) (the process ends with code 0 and main has
\* not moved) is such a worker's and changes nothing else: what it writes
\* to stdout is what other threads had left in the buffer.
C5_ExitOnLimit ==
    [][/\ \A w \in Workers :
           /\ (limit # 0 /\ pc[w] = "commit" /\ pc'[w] # "commit"
                   /\ found_n' >= limit) => pc'[w] = "exit"
           /\ pc[w] = "exit" => (~Acted(w) /\ printed'[w] = printed[w])
       /\ (exit_code' # exit_code /\ exit_code' = 0 /\ main_pc' = main_pc) =>
              /\ limit # 0 /\ found_n >= limit
              /\ \E w \in Workers : pc[w] = "exit"
              /\ UNCHANGED <<attempts, derived, stderr, found_n>>
              /\ stdout' = Flush(stdout, stdout_buf)
              /\ \A l \in Appended(stdout, stdout') : pc[l.by] # "exit"]_vars

\* A worker has ended the process at the limit while another was searching.
C5_Witness ==
    /\ exit_code = 0 /\ limit # 0 /\ found_n >= limit
    /\ \E w \in Workers : pc[w] = "exit"
    /\ \E w \in Workers : pc[w] \in {"search", "launch"}

\* C6: with limit = 0 no worker ends the process or heads for exit(0) (a
\* process that has ended with code 0 ended by the return of main), and
\* every confirmed match that has passed its fetch_add is in found_n: the
\* records emitted are those counted and those of workers before their
\* fetch_add.
C6_NoLimitNoExit ==
    limit = 0 =>
        /\ \A w \in Workers : pc[w] # "exit"
        /\ exit_code = 0 => main_pc = "returned"
        /\ found_n <= Emitted - Cardinality(Uncommitted)
        /\ found_n >= Emitted - Cardinality(Uncommitted \cup Unflushed)

\* Two matches have been committed without a limit and the search goes on.
C6_Witness ==
    /\ limit = 0 /\ found_n >= 2 /\ Running
    /\ \E w \in Workers : pc[w] \in {"search", "launch", "count"}

\* The positions of the GPU worker inside gpu_solana_compute, each before
\* one of the calls whose return value is tested, and the line that the
\* failure of that call writes.
CallPositions == {"launch", "enqueue", "read"}

GpuErrorLine == [launch |-> "gpu_write_error",
                 enqueue |-> "gpu_enqueue_error",
                 read |-> "gpu_read_error"]

\* The kinds of line a GPU launch without a confirmed match may leave.
GpuFailureKinds ==
    {GpuErrorLine[at] : at \in CallPositions} \cup {"non_matching"}

\* C7: attempts and found_n never decrease; found_n grows by exactly one, in
\* the step of a worker that has confirmed its address by the prefix check
\* and emitted the record; a search step or launch that does not confirm
\* (range miss, GPU miss, GPU error, non-matching GPU solution) leaves
\* found_n as it is.
C7_CountersMonotone ==
    [][/\ attempts' >= attempts
       /\ found_n' >= found_n
       /\ found_n' # found_n =>
              /\ found_n' = found_n + 1
              /\ \E w \in Workers :
                    /\ pc[w] = "commit" /\ pc'[w] # "commit"
                    /\ strncmp_prefix(address[w], prefix)
                    /\ \E i \in 1..Emitted :
                          /\ Records[i].by = w
                          /\ Records[i].addr = address[w]
       /\ (\/ iter' # iter
           \/ pc[GpuId] \in CallPositions /\ pc'[GpuId] # pc[GpuId]
           \/ pc[GpuId] = "count" /\ pc'[GpuId] # "count"
           \/ \E l \in NewLines : l.kind \in GpuFailureKinds) =>
              found_n' = found_n]_vars

\* A match has been committed and a GPU launch has ended in an error or in
\* a solution that failed the prefix check.
C7_Witness ==
    /\ found_n >= 1
    /\ \E i \in 1..Len(stderr) : stderr[i].kind \in GpuFailureKinds

\* The keys derived and not yet counted: one for each CPU worker between
\* deriving a key and counting it, and those of a launch of the GPU worker
\* between the kernel and its fetch_add.
InFlight ==
    Cardinality({w \in CpuIds :
                    pc[w] \in {"print", "flush", "commit", "count", "exit"}})
        + (IF pc[GpuId] \in {"read", "count"} THEN gpu.global_work_size
           ELSE 0)

\* C8: while the counter is kept (progress reporting on), attempts is the
\* number of keys derived so far by all workers and launches, less at most
\* the keys of iterations in flight; this for every choice of gpu-threads
\* and gpu-global-work-size, and when launches fail.
C8_AttemptsCountDerived ==
    output_progress => /\ attempts <= derived
                       /\ attempts >= derived - InFlight

\* No target length gives the prefix a range of 32-byte values.
NoRange(p) == Len(p) > 0 /\ AllLengths(p, MinTargetLen, <<>>) = <<>>

\* C9: for a prefix without any 32-byte range the compile step fails and
\* leaves the matcher unset; the program returns 1 with the error line as
\* the only output, no thread started and nothing on stdout, and takes no
\* step after that.
C9_InvalidPrefixFails ==
    [][/\ (main_pc = "compile" /\ \E p \in {prefix} : NoRange(p)) =>
              /\ main_pc' = "returned"
              /\ exit_code' = 1
              /\ matcher' = UnsetMatcher
              /\ stderr' = <<Line("error")>>
              /\ stdout' = <<>>
              /\ \A w \in Threads : pc'[w] = "unborn"
       /\ main_pc # "returned"]_vars

\* The program has returned 1 for a prefix of valid characters.
C9_Witness ==
    /\ main_pc = "returned" /\ exit_code = 1
    /\ prefix = <<"1", "1">>
    /\ stderr = <<Line("error")>>

\* C3: a public key whose Base58 address begins with a prefix that compiled
\* is accepted by the compiled matcher.
C3_RangeCoverComplete ==
    t_pc = "matched" =>
        \A pubkey \in {t_pub}, p \in {prefix} :
            strncmp_prefix(pubkey_to_base58(pubkey), p) => t_hit

\* C10: the prefix "1" compiles to a matcher with at least one range, and
\* the matcher accepts the keys with a leading zero byte.
C10_PrefixOneCompiles ==
    (prefix = <<"1">> /\ t_pc # "compile") =>
        /\ t_pc # "failed"
        /\ matcher.set /\ matcher.num_ranges >= 1
        /\ (t_pc = "matched" /\ t_pub[1] = 0) => t_hit

\* The warning of a failed gpu_solana_init is on stderr.
GpuInitFailed == \E i \in 1..Len(stderr) : stderr[i] = Line("warning")

\* C11: when the GPU is requested and gpu_solana_init fails, the run goes
\* on: the step writes the warning to stderr and main goes to start the
\* threads; from then on the GPU worker is never spawned, no launch is made
\* and no context is held or released, while the progress reporter (when
\* enabled) and every one of the num_threads CPU workers are spawned by the
\* time main waits in the join.
C11_GpuInitFailureFallsBack ==
    /\ [][(main_pc = "gpu_init" /\ use_gpu /\ ~gpu_ready') =>
              /\ Line("warning") \in Appended(stderr, stderr')
              /\ stdout' = stdout
              /\ main_pc' = "spawn_progress"
              /\ exit_code' = exit_code]_vars
    /\ [](GpuInitFailed =>
              /\ ~gpu_ready
              /\ pc[GpuId] = "unborn" /\ iter[GpuId] = 0
              /\ gpu.ctx = "none"
              /\ \A i \in 1..Len(stderr) : stderr[i].kind \notin GpuFailureKinds
              /\ main_pc = "join" =>
                    /\ \A w \in 1..num_threads : pc[w] # "unborn"
                    /\ output_progress => pc[ProgressId] # "unborn")

\* The key re-derives on the CPU to an address that begins with the prefix.
Verifies(k, p) ==
    \E a \in {Address(k)} : strncmp_prefix(a, p)

\* C12: whatever id the device returns, the launch that got it and the
\* check of the solution emit nothing and leave found_n alone; the worker
\* goes on to print the record only when the reconstructed key re-derives
\* to an address with the prefix, and otherwise to write the non-matching
\* diagnostic.  The diagnostic goes to stderr, for the key that failed the
\* check, with found_n and stdout as they are, and after its last call the
\* worker is back at the top of its loop.  Every record of the GPU worker
\* is for a key that passed the check.
C12_GpuVerifiesEverySolution ==
    [][\A p \in {prefix} :
          /\ (pc[GpuId] \in CallPositions /\ pc'[GpuId] # pc[GpuId]) =>
                /\ found_n' = found_n
                /\ stdout' = stdout /\ stdout_buf' = stdout_buf
                /\ (pc'[GpuId] = "count" /\ result' > 0) =>
                      /\ pc[GpuId] = "read"
                      /\ stderr' = stderr
          /\ (pc[GpuId] = "count" /\ pc'[GpuId] # "count" /\ result > 0) =>
                \E ok \in {Verifies(found_key, p)} :
                   /\ found_n' = found_n
                   /\ stdout' = stdout /\ stderr' = stderr
                   /\ pc'[GpuId] = IF ok THEN "print" ELSE "diag"
          /\ pc[GpuId] = "diag" =>
                /\ ~Verifies(found_key, p)
                /\ pc'[GpuId] # "diag" =>
                      /\ pc'[GpuId] = "launch"
                      /\ \E l \in Appended(stderr, stderr') :
                            /\ l.kind = "non_matching" /\ l.to = LastCall
                            /\ l.key = found_key
          /\ \A l \in NewLines :
                /\ (l.kind = "match" /\ l.by = GpuId) =>
                      /\ pc[GpuId] \in {"print", "flush"} /\ result = 1
                      /\ l.key = found_key
                      /\ Verifies(found_key, p)
                /\ l.kind = "non_matching" =>
                      /\ pc[GpuId] = "diag" /\ l.by = GpuId
                      /\ l.key = found_key
                      /\ l \notin Appended(stdout, stdout')
                      /\ found_n' = found_n]_vars

\* The device returned an id of 2^24 and more (with two work items the tail
\* 2 is no item's), which was reported in one piece and not emitted.
C12_Witness ==
    /\ gpu.global_work_size = 2
    /\ result = 1 /\ found_key[SOLANA_PRIVKEY_SIZE] = 2
    /\ pc[GpuId] = "launch"
    /\ stderr # <<>> /\ stderr[Len(stderr)] = DiagLine(found_key, GpuId)
    /\ found_n = 0 /\ Emitted = 0

\* A match record in one piece from its first call on: whole, or the one
\* being written at the end of the stream.
OneLine(stream, i) ==
    /\ stream[i].kind = "match" /\ stream[i].from = FirstCall
    /\ stream[i].to = LastCall \/ i = Len(stream)

\* C13: after argument parsing, in verbose mode nothing is ever written to
\* stdout; in simple mode stdout holds match records only, each a line of
\* its own (the key, the address, the newline), and neither the search plan
\* nor a match banner is on stderr.
C13_StreamDiscipline ==
    /\ ~simple_output => stdout = <<>>
    /\ simple_output =>
          /\ \A i \in 1..Len(stdout) : OneLine(stdout, i)
          /\ \A i \in 1..Len(stderr) : stderr[i].kind \notin {"plan", "match"}

\* a <= b as unsigned integers of 32 bytes, byte 0 the most significant.
LexLeq(a, b) ==
    \/ a = b
    \/ \E i \in 1..SOLANA_PUBKEY_SIZE :
          /\ a[i] < b[i]
          /\ \A j \in 1..(i - 1) : a[j] = b[j]

\* C14: solana_matcher_matches(matcher, pubkey) is true exactly when some
\* range of the matcher has min <= pubkey <= max in unsigned lexicographic
\* order, both bounds included, and the call changes neither the matcher nor
\* the key.
C14_MatchesIffInSomeRange ==
    [][(t_pc = "compiled" /\ t_pc' = "matched") =>
          /\ matcher' = matcher
          /\ t_hit' <=> \E i \in 1..matcher.num_ranges :
                            /\ LexLeq(matcher.ranges[i].min, t_pub')
                            /\ LexLeq(t_pub', matcher.ranges[i].max)]_vars

\* A key equal to the upper bound of a range was accepted, and the matcher
\* has a second range.
C14_Witness ==
    /\ t_pc = "matched" /\ t_hit
    /\ matcher.num_ranges >= 2
    /\ \E i \in 1..matcher.num_ranges : t_pub = matcher.ranges[i].max

\* C15: where GPU init succeeded, the context exists before the GPU worker
\* is spawned and is held for as long as that worker runs, and it has been
\* released by gpu_solana_cleanup when the process has stopped, also when
\* the stop is the exit(0) of the worker that reached the limit.
C15_GpuContextLifetime ==
    /\ gpu_ready => gpu.ctx # "none"
    /\ (pc[GpuId] # "unborn" /\ Running) => gpu.ctx = "held"
    /\ (gpu_ready /\ ~Running) => gpu.ctx = "released"

\* The prefix p filled up to length L with the character c, decoded.
Padded(p, L, c) == base58_decode(p \o Fill(L - Len(p), c))

\* The target lengths at which both padded strings decode to 32 bytes.
GoodLengths(p) ==
    {L \in MinTargetLen..MaxTargetLen :
        /\ L >= Len(p)
        /\ Padded(p, L, "1").len = SOLANA_PUBKEY_SIZE
        /\ Padded(p, L, "z").len = SOLANA_PUBKEY_SIZE}

\* C16: for a non-empty prefix P the matcher holds, in increasing order of
\* L, the range (decode(P + '1'...), decode(P + 'z'...)) of every length L
\* from max(|P|, 32) to 44 at which both strings decode to 32 bytes, and no
\* other range; there are at most 13; with no such length nothing is
\* produced.
C16_OneRangePerGoodLength ==
    (Len(prefix) > 0 /\ t_pc \in {"compiled", "failed", "matched"}) =>
        \E p \in {prefix}, m \in {matcher} :
        \E Ls \in {GoodLengths(p)} :
           /\ m.num_ranges = Cardinality(Ls)
           /\ Len(m.ranges) = m.num_ranges
           /\ m.num_ranges <= 13
           /\ \A L \in Ls :
                 m.ranges[Cardinality({l \in Ls : l <= L})] =
                     [min |-> Padded(p, L, "1").buf,
                      max |-> Padded(p, L, "z").buf]
           /\ t_pc = "failed" <=> Ls = {}

\* A prefix compiled to two ranges.
C16_Witness ==
    /\ t_pc = "compiled" /\ Len(prefix) > 0
    /\ matcher.num_ranges = 2

\* C17: after a successful prefix_to_all_ranges the matcher holds at least
\* one range, and every range has min <= max in unsigned lexicographic
\* order.
C17_RangesOrdered ==
    t_pc \in {"compiled", "matched"} =>
        /\ matcher.set /\ matcher.num_ranges >= 1
        /\ Len(matcher.ranges) = matcher.num_ranges
        /\ \A i \in 1..matcher.num_ranges :
              /\ Len(matcher.ranges[i].min) = SOLANA_PUBKEY_SIZE
              /\ Len(matcher.ranges[i].max) = SOLANA_PUBKEY_SIZE
              /\ LexLeq(matcher.ranges[i].min, matcher.ranges[i].max)

\* The prefix of 34 characters compiled, to ranges that are not the whole
\* key space.
C17_Witness ==
    /\ t_pc = "compiled" /\ Len(prefix) > MinTargetLen
    /\ matcher.num_ranges >= 1
    /\ matcher.ranges[1].min # matcher.ranges[1].max
    /\ matcher.ranges[1].min # Fill(SOLANA_PUBKEY_SIZE, 0)

\* b is a plus one as 256-bit integers with byte 31 the least significant:
\* the trailing 0xFF bytes of a are zero in b, the byte before them is one
\* more, the bytes in front are the same; all 0xFF is followed by all zero.
IsSucc(a, b) ==
    \/ \E i \in 1..SOLANA_PRIVKEY_SIZE :
          /\ a[i] < 255 /\ b[i] = a[i] + 1
          /\ \A j \in 1..(i - 1) : b[j] = a[j]
          /\ \A j \in (i + 1)..SOLANA_PRIVKEY_SIZE : a[j] = 255 /\ b[j] = 0
    \/ /\ a = Fill(SOLANA_PRIVKEY_SIZE, 255)
       /\ b = Fill(SOLANA_PRIVKEY_SIZE, 0)

\* What one iteration adds to attempts.
OneIfProgress == IF output_progress THEN 1 ELSE 0

\* C18: the step that ends an iteration of a CPU worker, after a miss or
\* after a committed match that did not stop the process, adds exactly 1 to
\* attempts when progress reporting is enabled and 0 when it is disabled,
\* and advances the key by exactly one; no other step of the worker
\* touches attempts or the key it is about to print or has printed.
C18_OneAttemptPerIteration ==
    [][\A w \in CpuIds :
          /\ (pc[w] = "search" /\ pc'[w] = "search" /\ iter'[w] # iter[w]) =>
                /\ attempts' = attempts + OneIfProgress
                /\ IF iter[w] = 0
                   THEN \E k \in StartKeys : IsSucc(k, key'[w])
                   ELSE IsSucc(key[w], key'[w])
          /\ (pc[w] = "count" /\ pc'[w] # "count") =>
                /\ pc'[w] = "search"
                /\ attempts' = attempts + OneIfProgress
                /\ IsSucc(key[w], key'[w])
          /\ (pc[w] \in {"print", "flush", "commit", "exit"}
                 \/ pc'[w] = "print") =>
                /\ pc'[w] # pc[w] => attempts' = attempts
                /\ pc[w] # "search" => key'[w] = key[w]
                /\ (pc[w] = "commit" /\ pc'[w] # "commit") =>
                      pc'[w] = IF limit # 0 /\ found_n' >= limit
                               THEN "exit" ELSE "count"]_vars

\* With progress reporting on and no limit, a CPU worker has printed and
\* committed a match, counted it and moved to the next key; and its other
\* iteration was a miss.
C18_Witness ==
    /\ output_progress /\ limit = 0 /\ ~use_gpu
    /\ \E w \in CpuIds :
          /\ pc[w] = "search" /\ iter[w] = 2
          /\ found_n = 1 /\ attempts = 2
          /\ \E i \in 1..Emitted : Records[i].by = w

\* k plus n modulo 2^256, byte 31 the least significant: every byte takes
\* the carry of the bytes behind it, and the carry out of byte 0 is dropped.
RECURSIVE AddFrom(_, _, _)
AddFrom(k, i, carry) ==
    IF i = 0 THEN k
    ELSE AddFrom([k EXCEPT ![i] = (k[i] + carry) % 256], i - 1,
                 (k[i] + carry) \div 256)

AddSmall(k, n) == AddFrom(k, SOLANA_PRIVKEY_SIZE, n)

\* C19: the key increment adds exactly 1 to the key read as a 256-bit
\* integer with its least significant byte at index 31, the key of all 0xFF
\* becoming the key of all zero: after n increments the key that started as
\* k0 is (k0 + n) mod 2^256, also when the increments pass the wrap.
C19_IncrementAddsOne ==
    t_pc = "inc" =>
        \A k0 \in {t_pub}, k \in {key[1]}, n \in {iter[1]} :
           /\ k = AddSmall(k0, n)
           /\ (k0 = Fill(SOLANA_PRIVKEY_SIZE, 255) /\ n >= 1) =>
                 k = AddSmall(Fill(SOLANA_PRIVKEY_SIZE, 0), n - 1)

\* The key drawn was two below the wrap; three increments later it is the
\* key 1, past the key of all zero.
C19_Witness ==
    /\ t_pc = "inc" /\ iter[1] = 3
    /\ t_pub = CarryKey(255, 254, 0)
    /\ key[1] = CarryKey(0, 1, 0)

\* Bits hi..lo of g as a number.
Bits(g, hi, lo) == (g \div (2 ^ lo)) % (2 ^ (hi - lo + 1))

\* C20: a call of gpu_solana_compute whose OpenCL calls succeed returns 1
\* when the cell read back is not the sentinel, with out[0..28] the bytes
\* of the root and out[29], out[30], out[31] the bits 23..16, 15..8 and
\* 7..0 of the id read, which for an id below 2^24 is the candidate of the
\* kernel contract for that work item; it returns 0 and leaves out as it
\* was when the cell holds the sentinel.
C20_ReconstructsCandidate ==
    [][(t_pc = "compute" /\ t_pc' = "computed" /\ result' >= 0) =>
          \A g \in {gpu.result_buf}, root \in {t_pub}, out \in {found_key'} :
             IF g # Sentinel
             THEN /\ result' = 1
                  /\ Len(out) = SOLANA_PRIVKEY_SIZE
                  /\ \A i \in 1..29 : out[i] = root[i]
                  /\ out[30] = Bits(g, 23, 16)
                  /\ out[31] = Bits(g, 15, 8)
                  /\ out[32] = Bits(g, 7, 0)
                  /\ g < 2 ^ 24 => out = KernelCandidate(root, g)
             ELSE /\ result' = 0
                  /\ out = found_key]_vars

\* The call returned 1 for an id whose three low bytes are 1, 2 and 3, on
\* the root whose byte i is i + 1, and has reset the cell.
C20_Witness ==
    /\ t_pc = "computed" /\ result = 1
    /\ t_pub[29] = 29 /\ t_pub[30] = 30
    /\ found_key = [i \in 1..SOLANA_PRIVKEY_SIZE |->
                       IF i <= 29 THEN i ELSE i - 29]
    /\ gpu.result_buf = Sentinel

\* C21: at every kernel launch the result cell holds the sentinel, whatever
\* launches came before; a step of the GPU worker that ran the kernel (it
\* derived keys) started from a cell with the sentinel.
C21_CellIsSentinelAtLaunch ==
    [][(pc[GpuId] = "enqueue" /\ derived' # derived) =>
          gpu.result_buf = Sentinel]_vars

\* C22: every iteration of the GPU worker adds to attempts exactly the
\* global work size used for its launch (the override when given, else the
\* GPU threads), whatever the launch returned: the fetch_add that follows
\* the launch adds it; stated for the runs in which the counter is kept.
C22_AttemptsGrowByWorkSize ==
    [][(pc[GpuId] = "count" /\ pc'[GpuId] # "count" /\ output_progress) =>
          attempts' = attempts + gpu.global_work_size]_vars

\* C23: in a GPU iteration, when the key-root write, the kernel enqueue or
\* the result read returns an error, gpu_solana_compute returns a negative
\* value at that call, having written the line of that call to stderr and
\* nothing else: no record, found_n, found_key and the address as they
\* were, the process running, no key derived by the step.  A call that
\* succeeds writes no error line and returns nothing negative.  The
\* fetch_add on attempts that follows a negative return changes none of
\* these either and takes the worker back to the top of its loop, and
\* every pass through the top draws a root anew.
C23_FailedLaunchSkipped ==
    [][/\ \A at \in CallPositions :
             (pc[GpuId] = at /\ pc'[GpuId] # at) =>
                /\ err' < 0 =>
                      /\ result' < 0
                      /\ stderr' = Append(stderr, Line(GpuErrorLine[at]))
                      /\ stdout' = stdout /\ stdout_buf' = stdout_buf
                      /\ found_n' = found_n
                      /\ found_key' = found_key
                      /\ address' = address
                      /\ derived' = derived
                      /\ exit_code' = exit_code
                      /\ pc'[GpuId] = "count"
                /\ err' >= 0 =>
                      /\ stderr' = stderr
                      /\ pc'[GpuId] = "count" => result' >= 0
       /\ (pc[GpuId] = "count" /\ pc'[GpuId] # "count" /\ result < 0) =>
             /\ pc'[GpuId] = "launch"
             /\ stderr' = stderr
             /\ stdout' = stdout /\ stdout_buf' = stdout_buf
             /\ found_n' = found_n
             /\ found_key' = found_key
             /\ address' = address
             /\ exit_code' = exit_code
       /\ (pc[GpuId] = "launch" /\ pc'[GpuId] # "launch") =>
             /\ iter'[GpuId] = iter[GpuId] + 1
             /\ key'[GpuId] \in GpuRoots]_vars

\* After a launch whose result read failed the GPU worker made another
\* launch, with another outcome: a match that it has printed.
C23_Witness ==
    /\ iter[GpuId] = 2 /\ result = 1
    /\ \E i \in 1..Len(stderr) : stderr[i] = Line("gpu_read_error")
    /\ \E i \in 1..Emitted : Records[i].by = GpuId

\* Where main stands once it has made the pthread_create call for worker w.
Created(w) ==
    \/ main_pc = "spawn_cpu" /\ w <= main_i
    \/ main_pc \in {"spawn_gpu", "join", "join_gpu", "cleanup", "return",
                    "returned"}

\* C24: a thread exists only after the search plan has been printed (first
\* thing on stderr in verbose mode, so no match record precedes it) and GPU
\* initialisation has finished; a CPU worker exists only after the call
\* that creates the progress reporter, when that is enabled, and after the
\* calls for the CPU workers before it; the GPU worker exists only after
\* the calls for all num_threads CPU workers.
C24_StartOrder ==
    /\ (\E w \in Threads : pc[w] # "unborn") =>
          /\ main_pc \notin {"compile", "plan", "gpu_init", "spawn_progress"}
          /\ ~simple_output => (stderr # <<>> /\ stderr[1] = Line("plan"))
    /\ (gpu_ready \/ GpuInitFailed) =>
          main_pc \notin {"compile", "plan", "gpu_init"}
    /\ main_pc \in {"compile", "plan", "gpu_init"} =>
          (~gpu_ready /\ \A w \in Threads : pc[w] = "unborn")
    /\ \A w \in CpuIds :
          pc[w] # "unborn" => (w <= num_threads /\ Created(w))
    /\ pc[ProgressId] # "unborn" => output_progress
    /\ pc[GpuId] # "unborn" =>
          /\ gpu_ready /\ main_pc \in {"join", "join_gpu"}
          /\ \A w \in 1..num_threads : Created(w)

\* Verbose mode, main is about to create the GPU worker: the progress
\* reporter and the CPU worker run, that worker has printed a match, and
\* the GPU worker, whose context is ready, does not exist yet.
C24_Witness ==
    /\ ~simple_output /\ main_pc = "spawn_gpu"
    /\ pc[ProgressId] = "sleep"
    /\ pc[1] = "commit"
    /\ gpu_ready /\ pc[GpuId] = "unborn"
    /\ Emitted = 1

\* a times the 8-byte number e (most significant byte first): acc holds the
\* product with the bytes before byte i.
RECURSIVE BigTimesFrom(_, _, _, _)
BigTimesFrom(a, e, i, acc) ==
    IF i > 8 THEN acc
    ELSE Only({BigTimesFrom(a, e, i + 1, acc2) :
                  acc2 \in {mpz_add(mpz_mul_2exp(acc, 1),
                                    BigMulSmall(a, e[i]))}})

BigTimes(a, e) == BigTimesFrom(a, e, 1, BigZero)

\* The largest 64-bit number, most significant byte first.
UINT64_MAX == <<255, 255, 255, 255, 255, 255, 255, 255>>

\* e is floor(P * 2^192 / S) when that is below 2^64, and UINT64_MAX when
\* it is not.
IsSaturatedQuotient(e, P, S) ==
    \E n \in {mpz_mul_2exp(mpz_import(P), 24)}, q \in {BigTimes(S, e)} :
       IF BigLeq(mpz_mul_2exp(S, 8), n)
       THEN e = UINT64_MAX
       ELSE BigLeq(q, n) /\ ~BigLeq(mpz_add(q, S), n)

\* C25: for a matcher of total measure S > 0, each estimate returned by
\* get_estimates_gmp is floor(P * 2^192 / S) when that fits in 64 bits and
\* UINT64_MAX when it does not.
C25_EstimateIsSaturatedQuotient ==
    t_pc = "estimated" =>
        \E m \in {matcher}, e \in {ce} :
           \E S \in {SumRanges(m)} :
              S # BigZero =>
                 /\ IsSaturatedQuotient(e.p50, P50, S)
                 /\ IsSaturatedQuotient(e.p90, P90, S)
                 /\ IsSaturatedQuotient(e.p99, P99, S)

\* a <= b for 64-bit numbers written most significant byte first
U64Leq(a, b) ==
    \/ a = b
    \/ \E i \in 1..8 : a[i] < b[i] /\ \A j \in 1..(i - 1) : a[j] = b[j]

\* C29: for a matcher that prefix_to_all_ranges compiled, get_estimates_gmp
\* returns p50 <= p90 <= p99.
C29_EstimatesOrdered ==
    t_pc = "estimated" => U64Leq(ce.p50, ce.p90) /\ U64Leq(ce.p90, ce.p99)

\* The workers that have been started.
Born == {w \in Workers : pc[w] # "unborn"}

\* The workers the run is configured to start.
WorkerCount == num_threads + (IF gpu_ready THEN 1 ELSE 0)

\* C26: the records emitted exceed found_n by at most one per started
\* worker, and with a limit L >= 1 at most L - 1 records and one more for
\* each started worker are ever emitted; the started workers are among the
\* W that the run is configured to start, so that at most L + W - 1
\* records are emitted.
C26_SurplusBounded ==
    /\ Emitted - found_n <= Cardinality(Born)
    /\ Cardinality(Born) <= WorkerCount
    /\ limit >= 1 => Emitted <= limit + Cardinality(Born) - 1

\* Both workers have counted a match against a limit of one: two records,
\* the most that two workers can emit, with an iteration to spare.
C26_Witness ==
    /\ limit = 1 /\ WorkerCount = 2
    /\ Cardinality(Born) = 2
    /\ Emitted = limit + WorkerCount - 1 /\ found_n = Emitted
    /\ Started < IterBound

\* C27: for a prefix that does not begin with "1", the bounds of every
\* compiled range have addresses that begin with the prefix (and, for a
\* prefix that is not empty, of one length), and a key that the range test
\* accepts passes the prefix check of the CPU worker on its address.
C27_RangeHitHasPrefix ==
    (t_pc \in {"compiled", "matched"} /\ (prefix = <<>> \/ prefix[1] # "1")) =>
        \A p \in {prefix}, m \in {matcher} :
           /\ \A i \in 1..m.num_ranges :
                 \E lo \in {pubkey_to_base58(m.ranges[i].min)},
                    hi \in {pubkey_to_base58(m.ranges[i].max)} :
                    /\ strncmp_prefix(lo, p) /\ strncmp_prefix(hi, p)
                    /\ p # <<>> => Len(lo) = Len(hi)
           /\ (t_pc = "matched" /\ t_hit) =>
                 Confirmed(RangeHitAddress(m, t_pub), p)

\* A key strictly inside a range of a two-character prefix was accepted.
C27_Witness ==
    /\ t_pc = "matched" /\ t_hit /\ prefix = <<"S", "o">>
    /\ \A i \in 1..matcher.num_ranges :
          t_pub # matcher.ranges[i].min /\ t_pub # matcher.ranges[i].max

\* The positions of a worker inside its loop, and the call of exit(0).
LoopPositions ==
    {"search", "print", "flush", "commit", "count", "launch", "enqueue",
     "read", "diag", "exit"}

\* C28: a started worker is always inside its loop or at exit(0), so the
\* joins of main never complete: main stays in its first join, does not
\* reach the cleanup or return once it has started threads, and the context
\* is never released; the process stops by itself only through the exit(0)
\* of a worker that reached the limit (or, before any thread exists,
\* through the failure to compile the prefix).
C28_WorkersNeverReturn ==
    /\ \A w \in Born : pc[w] \in LoopPositions
    /\ main_pc = "join" => main_i = 0
    /\ main_pc \notin {"join_gpu", "cleanup", "return"}
    /\ gpu.ctx # "released"
    /\ main_pc = "returned" =>
          (exit_code = 1 /\ Born = {} /\ pc[ProgressId] = "unborn")
    /\ ~Running =>
          \/ exit_code = 1 /\ main_pc = "returned"
          \/ /\ exit_code = 0 /\ limit >= 1 /\ found_n >= limit
             /\ \E w \in Born : pc[w] = "exit"

\* C30: a gpu_solana_init that fails returns -1 having released exactly the
\* resources it created before the failure, and one that succeeds returns 0
\* holding all eight resources with none released.
C30_InitReleasesWhatItAcquired ==
    t_pc = "gpu_done" =>
        /\ cl.ret = (IF cl.fail = "none" THEN 0 ELSE -1)
        /\ cl.ret = -1 => cl.released = cl.acquired
        /\ cl.ret = 0 => cl.acquired = Resources /\ cl.released = {}

====
